---- MODULE Spec2Model ----
(***************************************************************************)
(* A model of the prototypes of this repository.                           *)
(*                                                                         *)
(* Part 1: the credit ledger of credit_balance/credits.py (class Credits). *)
(* Part 2: the five stream consumers (the process_event handlers).         *)
(* The ledger's fields are variables; create_grant, subtract and           *)
(* get_balance are one action each.  get_balance is the operator           *)
(* GetBalanceOrd, a fold of the loop body (Visit) over the timeline; the   *)
(* values its locals take, phase by phase, are the operator Trace.  The    *)
(* set available_expirations is modelled as the hash table it is, since    *)
(* the order in which sorted() reads it decides ties of expiration.        *)
(* Part 3: the two infra generators (generate.py).                         *)
(* Part 4: the chat agent (first-chat-agent/agent.py).                     *)
(***************************************************************************)
EXTENDS Integers, Sequences, FiniteSets, TLC

\* ------------------------------------------------------------- bounds
\* at most MaxOps create_grant / subtract calls are recorded
MaxOps == 3

\* the inputs: grant ids, timestamps (creation, expiration, debit, query)
\* and amounts (> 0, section 3.1 of the specification)
GrantIds == {"a", "b"}
Timestamps == 1..3
Amounts == 1..2

\* What a call of get_balance yields: an integer, Python's None (the absent
\* value), or an exception that escapes the call (a KeyError of a dict or set)
IntVal(n) == [tag |-> "int", val |-> n]
None == [tag |-> "None", val |-> 0]
KeyError == [tag |-> "KeyError", val |-> 0]

VARIABLES
    \* ---- Credits' fields (credits.py 14-20)
    timestamps,      \* self.timestamps: the sorted timeline, duplicates kept
    grants,          \* self.grants: grant_id -> record
    grants_ts,       \* self.grants_ts: creation timestamp -> list of grant ids
    exp_ts,          \* self.exp_ts: expiration timestamp -> list of grant ids
    subtracts_ts,    \* self.subtracts_ts: timestamp -> debit total
    subtractions,    \* self.subtractions: the debits, in call order
    \* ---- the process: the hashes of the grant ids. String hashing is seeded
    \* per process and constant within one; it fixes where a key lands in a set
    hashes,
    \* ---- the last call made on the ledger: its method, its timestamp
    \* argument and the value it returned
    call,
    \* ---- what the caller saw before the last create_grant or subtract:
    \* the least timestamp whose balance was None (0 when there was none)
    short_before,
    \* ---- a client that records one set of calls on a ledger and then, in
    \* some order, on a second new ledger (the tests of main.py record a
    \* debit before the grant that funds it)
    plan,            \* the calls: create_grant and subtract with arguments
    earlier,         \* timestamp -> what get_balance returned on the first
                     \* ledger once all calls were recorded (<< >>: not yet)
    \* ---- Part 2: one warm process of one stream consumer
    consumer,        \* which handler module the process runs
    phase,           \* "idle", "invoked" (a batch was delivered), "responded"
    event,           \* event["Records"] of the current invocation
    response,        \* what process_event returned (or that it raised)
    outcomes,        \* per record of the batch: "ok" or "fail", as logged
    failed_records,  \* the local failed_records when process_event ended
    calls,           \* the stubs the invocation called, in order
    buckets,         \* analytics aggregator: the sequence numbers in the
                     \* locals user_activity_records, payment_records and
                     \* unknown_records when process_event ended
    environ,         \* os.environ of the process: name -> text (characters)
    order_alerts,    \* orders/handler.py line 36: the local order_alerts
    processed_payments,  \* payments/handler.py: _processed_payments
    \* ---- how often the process has called a per-type payment handler for
    \* each <<payment_id, type>>, over all its invocations
    handled,
    \* ---- the records (without their sequence numbers) that failed in the
    \* batches this process has handled, kept for a payments process whose
    \* stream delivers records again
    failed_before,
    \* ---- Part 3: one installation of an infra generator and the project
    \* directory it is run in
    tool,            \* which generate.py: "kinesis-infra" or "kinesis-starter-infra"
    config_file,     \* the config file of the project: absent, or its document
    generated,       \* <project>/__generated__: "absent", "dir" or "file"
    main_tf,         \* env -> the text of __generated__/<env>/main.tf, if any
    runs,            \* the runs of the tool so far: arguments, exit code,
                     \* what was printed and what generate returned
    \* ---- Part 4: one process of first-chat-agent/agent.py and its terminal
    stage,           \* where the process is: "new", "online" (in the loop),
                     \* "ended" (left the loop), "exited" (exit() in
                     \* _configure_llm), "crashed" (uncaught exception)
    GEMINI_API_KEY,  \* the variable in os.environ when the process starts
    dotenv,          \* the variable in the .env file, read by load_dotenv
    client,          \* self.client: whether genai.Client was created
    chat,            \* self.chat: whether the chat session was created
    inputs,          \* the lines input() has returned, in order
    sent,            \* the arguments of chat.send_message, in call order
    printed          \* what the process printed, in order

ledgerVars == <<timestamps, grants, grants_ts, exp_ts, subtracts_ts, subtractions>>
clientVars == <<hashes, call, short_before, plan, earlier>>
consumerVars == <<consumer, phase, event, response, outcomes, failed_records,
                  calls, buckets, environ, order_alerts, processed_payments,
                  handled, failed_before>>
vars == <<timestamps, grants, grants_ts, exp_ts, subtracts_ts, subtractions,
          hashes, call, short_before, plan, earlier,
          consumer, phase, event, response, outcomes, failed_records, calls,
          buckets, environ, order_alerts, processed_payments, handled,
          failed_before,
          tool, config_file, generated, main_tf, runs,
          stage, GEMINI_API_KEY, dotenv, client, chat, inputs, sent, printed>>
generatorVars == <<tool, config_file, generated, main_tf, runs>>
agentVars == <<stage, GEMINI_API_KEY, dotenv, client, chat, inputs, sent, printed>>

\* no generator is installed
GeneratorIdle ==
    /\ tool = "none"
    /\ config_file = [exists |-> FALSE]
    /\ generated = "absent"
    /\ main_tf = << >>
    /\ runs = << >>

AgentIdle ==
    /\ stage = "none"
    /\ GEMINI_API_KEY = "unset"
    /\ dotenv = "unset"
    /\ client = FALSE
    /\ chat = FALSE
    /\ inputs = << >>
    /\ sent = << >>
    /\ printed = << >>

\* ------------------------------------------------------------- helpers
\* dict.get(k, d)
Get(f, k, d) == IF k \in DOMAIN f THEN f[k] ELSE d

\* d[k] = v
Put(f, k, v) == [x \in DOMAIN f \cup {k} |-> IF x = k THEN v ELSE f[x]]

\* del d[k]
Del(f, k) == [x \in DOMAIN f \ {k} |-> f[x]]

Range(s) == {s[i] : i \in DOMAIN s}

\* list.append in the place of bisect.insort
Insort_append(a, x) == Append(a, x)

\* bisect.insort(a, x): insert x after the last element <= x
Insort(a, x) ==
    LET k == Cardinality({i \in 1..Len(a) : a[i] <= x})
    IN  SubSeq(a, 1, k) \o <<x>> \o SubSeq(a, k + 1, Len(a))

RECURSIVE SumOver(_, _)
SumOver(S, f) ==
    IF S = {} THEN 0
    ELSE LET x == CHOOSE y \in S : TRUE IN f[x] + SumOver(S \ {x}, f)

\* sum(grant_amts.values())
SumValues(f) == SumOver(DOMAIN f, f)

\* ------------------------------------ the built-in set of get_balance
\* available_expirations (line 43) is a CPython set: a hash table with open
\* addressing, 8 slots at first. Iteration (inside sorted, line 69) reads the
\* slots in index order, and the slot a key lands in depends on its hash and
\* on what the table held when the key was added. The hash of a str is drawn
\* per process (PYTHONHASHSEED); of a hash h the table reads only
\* (h >> 5k) % 32 for k = 0, 1, ..., and that sequence stands for h here.
LINEAR_PROBES == 9
Unused == "<unused>"
Dummy == "<dummy>"

\* (h >> 5k) % 32
Perturb(h, k) == IF k + 1 <= Len(h) THEN h[k + 1] ELSE 0

\* the hashes of the grant ids "a" and "b" in four processes
\* (PYTHONHASHSEED 0, 2, 5 and 24): in the first two the ids have different
\* home slots, in the last two the same one
Layouts ==
    { [a |-> <<19, 0, 6, 22, 9, 28, 10, 26, 8, 2, 29, 0, 4>>,
       b |-> <<14, 6, 24, 22, 15, 1, 24, 4, 15, 22, 8, 22, 8>>],
      [a |-> <<29, 13, 15, 4, 23, 18, 9, 28, 22, 3, 10, 16, 5>>,
       b |-> <<2, 13, 13, 27, 0, 4, 2, 10, 16, 25, 9, 20, 8>>],
      [a |-> <<11, 23, 23, 22, 26, 15, 22, 15, 9, 4, 0, 6, 13>>,
       b |-> <<11, 28, 5, 28, 8, 6, 16, 31, 3, 17, 20, 25, 11>>],
      [a |-> <<14, 11, 6, 23, 25, 9, 20, 2, 29, 31, 13, 26, 7>>,
       b |-> <<14, 4, 15, 20, 31, 24, 30, 22, 23, 28, 7, 24, 11>>] }

\* set()
NewSet == [table |-> [i \in 0..7 |-> Unused], mask |-> 7, fill |-> 0, used |-> 0]

\* the probe loop of set.add: from slot i (the k-th of the perturbed
\* sequence) at linear offset j, with the last dummy seen in freeslot
\* (-1: none); gives the slot that holds the key or the one it goes to
RECURSIVE set_probe(_, _, _, _, _, _, _)
set_probe(sv, key, h, i, k, j, freeslot) ==
    LET entry == sv.table[i + j]
        seen == IF entry = Dummy THEN i + j ELSE freeslot
    IN  IF entry = Unused
        THEN [found |-> FALSE, fresh |-> freeslot < 0,
              slot |-> IF freeslot >= 0 THEN freeslot ELSE i + j]
        ELSE IF entry = key
        THEN [found |-> TRUE, fresh |-> FALSE, slot |-> i + j]
        ELSE IF i + LINEAR_PROBES <= sv.mask /\ j < LINEAR_PROBES
        THEN set_probe(sv, key, h, i, k, j + 1, seen)
        ELSE set_probe(sv, key, h,
                       (i * 5 + 1 + Perturb(h, k + 1)) % (sv.mask + 1),
                       k + 1, 0, seen)

\* set_insert_clean: the first unused slot of the probe sequence, in a table
\* without dummies
RECURSIVE set_insert_clean(_, _, _, _, _, _)
set_insert_clean(table, mask, h, i, k, j) ==
    IF table[i + j] = Unused THEN i + j
    ELSE IF i + LINEAR_PROBES <= mask /\ j < LINEAR_PROBES
    THEN set_insert_clean(table, mask, h, i, k, j + 1)
    ELSE set_insert_clean(table, mask, h,
                          (i * 5 + 1 + Perturb(h, k + 1)) % (mask + 1),
                          k + 1, 0)

RECURSIVE NewSize(_, _)
NewSize(size, minused) ==
    IF size <= minused THEN NewSize(2 * size, minused) ELSE size

\* the keys of the old table, in slot order, put into the new one
RECURSIVE Reinsert(_, _, _, _, _)
Reinsert(oldtable, i, table, mask, hs) ==
    IF i \notin DOMAIN oldtable THEN table
    ELSE IF oldtable[i] \in {Unused, Dummy}
    THEN Reinsert(oldtable, i + 1, table, mask, hs)
    ELSE LET key == oldtable[i]
             slot == set_insert_clean(table, mask, hs[key],
                                      hs[key][1] % (mask + 1), 0, 0)
         IN  Reinsert(oldtable, i + 1, [table EXCEPT ![slot] = key], mask, hs)

\* set_table_resize: a table of at least 8 slots and more than minused
set_table_resize(sv, minused, hs) ==
    LET size == NewSize(8, minused)
    IN  [table |-> Reinsert(sv.table, 0, [i \in 0..(size - 1) |-> Unused],
                            size - 1, hs),
         mask |-> size - 1, fill |-> sv.used, used |-> sv.used]

\* available_expirations.add(key): a key that is new goes to the last dummy
\* passed on the way to the first unused slot, else to that unused slot,
\* and the table is rebuilt when 3/5 of it is no longer unused
set_add(sv, key, hs) ==
    LET p == set_probe(sv, key, hs[key], hs[key][1] % (sv.mask + 1), 0, 0, -1)
        placed == [sv EXCEPT !.table[p.slot] = key, !.used = sv.used + 1]
        filled == [placed EXCEPT !.fill = sv.fill + 1]
    IN  IF p.found THEN sv
        ELSE IF ~p.fresh THEN placed
        ELSE IF filled.fill * 5 < sv.mask * 3 THEN filled
        ELSE set_table_resize(filled, filled.used * 4, hs)

\* available_expirations.remove(key), for a key that is in the set: its slot
\* becomes a dummy
set_remove(sv, key) ==
    [sv EXCEPT !.table = [i \in DOMAIN sv.table |->
                             IF sv.table[i] = key THEN Dummy ELSE sv.table[i]],
               !.used = sv.used - 1]

\* iter(available_expirations): the keys in slot order
RECURSIVE set_iter_from(_, _)
set_iter_from(sv, i) ==
    IF i > sv.mask THEN << >>
    ELSE (IF sv.table[i] \in {Unused, Dummy} THEN << >> ELSE <<sv.table[i]>>)
         \o set_iter_from(sv, i + 1)

set_iter(sv) == set_iter_from(sv, 0)

\* the keys of o1 added in list order (lines 57-59)
RECURSIVE AddAll(_, _, _)
AddAll(sv, o1, hs) ==
    IF o1 = << >> THEN sv
    ELSE AddAll(set_add(sv, Head(o1), hs), Tail(o1), hs)

\* the keys of S removed (lines 64 and 77)
RECURSIVE RemoveAll(_, _)
RemoveAll(sv, S) ==
    IF S = {} THEN sv
    ELSE LET key == CHOOSE x \in S : TRUE
         IN  RemoveAll(set_remove(sv, key), S \ {key})

Pos(ord, g) == CHOOSE i \in DOMAIN ord : ord[i] = g

\* ------------------------------------------------- get_balance, phases
\* (mutant of Before: the sort key is the creation timestamp)
Before_by_creation(g, h, ord) ==
    \/ grants[g].ts < grants[h].ts
    \/ grants[g].ts = grants[h].ts /\ Pos(ord, g) < Pos(ord, h)

\* line 69: sorted(available_expirations, key=ets); the sort is stable, so
\* grants of equal expiration keep the set's iteration order `ord`
Before(g, h, ord) ==
    \/ grants[g].ets < grants[h].ets
    \/ grants[g].ets = grants[h].ets /\ Pos(ord, g) < Pos(ord, h)

RECURSIVE SortedByEts(_, _)
SortedByEts(S, ord) ==
    IF S = {} THEN << >>
    ELSE LET m == CHOOSE g \in S : \A h \in S \ {g} : Before(g, h, ord)
         IN  <<m>> \o SortedByEts(S \ {m}, ord)

\* lines 57-59: for gid in o1: grant_amts[gid] = amt; available.add(gid)
ActivateAmts(ga, o1) ==
    [g \in DOMAIN ga \cup Range(o1) |->
        IF g \in Range(o1) THEN grants[g].amt ELSE ga[g]]

ActivateAvail(av, o1) == av \cup Range(o1)

\* lines 61-64: for gid in o2: if gid in grant_amts: del, remove
ExpireAmts(ga, o2) == [g \in DOMAIN ga \ Range(o2) |-> ga[g]]

ExpireAvail(ga, av, o2) == av \ (Range(o2) \cap DOMAIN ga)

\* set.remove raises KeyError for a missing element
ExpireRaises(ga, av, o2) == \E g \in Range(o2) \cap DOMAIN ga : g \notin av

\* the loop over the sorted grants without the comparison of line 71: the
\* first grant takes the whole debit
Reduce_overdraw(ga, av, order, to_reduce) ==
    IF order = << >>
    THEN [amts |-> ga, avail |-> av, left |-> to_reduce, err |-> FALSE]
    ELSE LET gid == Head(order) IN
         IF gid \notin DOMAIN ga
         THEN [amts |-> ga, avail |-> av, left |-> to_reduce, err |-> TRUE]
         ELSE [amts |-> Put(ga, gid, ga[gid] - to_reduce), avail |-> av,
               left |-> 0, err |-> FALSE]

\* lines 70-78: the loop over the sorted grants; `left` is to_reduce after it
RECURSIVE Reduce(_, _, _, _)
Reduce(ga, av, order, to_reduce) ==
    IF order = << >>
    THEN [amts |-> ga, avail |-> av, left |-> to_reduce, err |-> FALSE]
    ELSE LET gid == Head(order) IN
         IF gid \notin DOMAIN ga
         THEN [amts |-> ga, avail |-> av, left |-> to_reduce, err |-> TRUE]
         ELSE IF ga[gid] > to_reduce
         THEN [amts |-> Put(ga, gid, ga[gid] - to_reduce), avail |-> av,
               left |-> 0, err |-> FALSE]
         ELSE Reduce(Del(ga, gid), av \ {gid}, Tail(order), to_reduce - ga[gid])

\* lines 67-80: if o3 > 0: apply the debit total o3
ApplyDebit(ga, av, o3, ord) ==
    IF o3 > 0
    THEN Reduce(ga, av, SortedByEts(av, ord), o3)
    ELSE [amts |-> ga, avail |-> av, left |-> 0, err |-> FALSE]

\* lines 50-54
O1(ts) == Get(grants_ts, ts, << >>)
O2(ts) == Get(exp_ts, ts, << >>)
O3(ts) == Get(subtracts_ts, ts, 0)

\* lines 50-80: one pass of the loop body, for timeline entry ts, in a
\* process with str hashes hs. avail is available_expirations as a
\* mathematical set and `set` the table that holds it; act and exp are the
\* locals after lines 57-59 and after lines 61-64;
\* out is "run" while the loop goes on, else what leaves the call
Visit(st, ts, hs) ==
    LET ga1 == ActivateAmts(st.amts, O1(ts))
        av1 == ActivateAvail(st.avail, O1(ts))
        sv1 == AddAll(st.set, O1(ts), hs)
        ga2 == ExpireAmts(ga1, O2(ts))
        av2 == ExpireAvail(ga1, av1, O2(ts))
        sv2 == RemoveAll(sv1, av1 \ av2)
        d   == ApplyDebit(ga2, av2, O3(ts), set_iter(sv2))
    IN  IF ExpireRaises(ga1, av1, O2(ts))
        THEN [amts |-> ga1, avail |-> av1, set |-> sv1, out |-> "KeyError",
              act |-> [amts |-> ga1, avail |-> av1],
              exp |-> [amts |-> ga1, avail |-> av1]]
        ELSE [amts |-> d.amts, avail |-> d.avail,
              set |-> RemoveAll(sv2, av2 \ d.avail),
              out |-> IF d.err THEN "KeyError"
                      ELSE IF d.left > 0 THEN "None" ELSE "run",
              act |-> [amts |-> ga1, avail |-> av1],
              exp |-> [amts |-> ga2, avail |-> av2]]

\* (mutant of LoopEnds: the loop breaks at the query timestamp itself)
LoopEnds_exclusive(i, T) == i > Len(timestamps) \/ timestamps[i] >= T

\* lines 45-49: for ts in self.timestamps: if ts > timestamp: break
LoopEnds(i, T) == i > Len(timestamps) \/ timestamps[i] > T

\* lines 43-44: the locals at the start of a call
Locals0 == [amts |-> << >>, avail |-> {}, set |-> NewSet, out |-> "run"]

\* (mutant of Replay: a shortfall sets a flag that the next pass overwrites,
\* instead of returning None at once)
RECURSIVE Replay_flag(_, _, _, _)
Replay_flag(st, i, T, hs) ==
    IF LoopEnds(i, T) THEN st
    ELSE LET s2 == Visit(st, timestamps[i], hs)
         IN  IF s2.out = "KeyError" THEN s2 ELSE Replay_flag(s2, i + 1, T, hs)

\* lines 45-82: the loop, left early by `return None` (or by an exception)
RECURSIVE Replay(_, _, _, _)
Replay(st, i, T, hs) ==
    IF LoopEnds(i, T) THEN st
    ELSE LET s2 == Visit(st, timestamps[i], hs)
         IN  IF s2.out # "run" THEN s2 ELSE Replay(s2, i + 1, T, hs)

\* get_balance(timestamp) as a function of the ledger, for str hashes hs
GetBalanceOrd(hs, T) ==
    LET s == Replay(Locals0, 1, T, hs)
    IN  IF s.out = "run" THEN IntVal(SumValues(s.amts))
        ELSE IF s.out = "None" THEN None ELSE KeyError

\* get_balance in this process
GetBalance(T) == GetBalanceOrd(hashes, T)

\* The values of the locals during get_balance(T): for every pass of the loop
\* body that is executed, one entry with the locals before the pass (pre),
\* after activation (act), after expiration (exp) and after the debit (post)
RECURSIVE TraceFrom(_, _, _, _)
TraceFrom(st, i, T, hs) ==
    IF LoopEnds(i, T) THEN << >>
    ELSE LET v == Visit(st, timestamps[i], hs)
             e == [i |-> i, ts |-> timestamps[i],
                   pre |-> [amts |-> st.amts, avail |-> st.avail],
                   act |-> v.act, exp |-> v.exp,
                   post |-> [amts |-> v.amts, avail |-> v.avail],
                   out |-> v.out]
         IN  IF v.out # "run" THEN <<e>>
             ELSE <<e>> \o TraceFrom(v, i + 1, T, hs)

Trace(T) == TraceFrom(Locals0, 1, T, hashes)

\* the least timestamp at which get_balance is None (0: there is none)
ShortNow ==
    LET S == {t \in Timestamps : GetBalance(t) = None}
    IN  IF S = {} THEN 0 ELSE CHOOSE t \in S : \A u \in S : t <= u

\* ------------------------------------------------------------- actions
OpsRecorded == Cardinality(DOMAIN grants) + Len(subtractions)

InitLedger ==
    /\ timestamps = << >>
    /\ grants = << >>
    /\ grants_ts = << >>
    /\ exp_ts = << >>
    /\ subtracts_ts = << >>
    /\ subtractions = << >>
    /\ hashes \in Layouts
    /\ call = [op |-> "__init__", arg |-> 0, ret |-> None]
    /\ short_before = 0
    /\ plan = {}
    /\ earlier = << >>
    /\ consumer = "none"
    /\ phase = "idle"
    /\ event = << >>
    /\ response = [shape |-> "none"]
    /\ outcomes = << >>
    /\ failed_records = << >>
    /\ calls = << >>
    /\ buckets = [user_activity |-> << >>, payments |-> << >>, unknown |-> << >>]
    /\ environ = << >>
    /\ order_alerts = FALSE
    /\ processed_payments = {}
    /\ handled = << >>
    /\ failed_before = {}
    /\ GeneratorIdle
    /\ AgentIdle

\* credits.py 22-34
create_grant(timestamp, grant_id, amount, expiration_timestamp) ==
    /\ grant_id \notin DOMAIN grants
    /\ timestamps' = Insort(Insort(timestamps, timestamp), expiration_timestamp)
    /\ grants_ts' = Put(grants_ts, timestamp,
                        Append(Get(grants_ts, timestamp, << >>), grant_id))
    /\ grants' = Put(grants, grant_id,
                     [ts |-> timestamp, gid |-> grant_id, amt |-> amount,
                      ets |-> expiration_timestamp])
    /\ exp_ts' = Put(exp_ts, expiration_timestamp,
                     Append(Get(exp_ts, expiration_timestamp, << >>), grant_id))
    /\ call' = [op |-> "create_grant", arg |-> timestamp, ret |-> None]
    /\ UNCHANGED <<subtracts_ts, subtractions, hashes>>

\* credits.py 36-39
subtract(timestamp, amount) ==
    /\ subtractions' = Append(subtractions, [ts |-> timestamp, amt |-> amount])
    /\ timestamps' = Insort(timestamps, timestamp)
    /\ subtracts_ts' = Put(subtracts_ts, timestamp,
                           Get(subtracts_ts, timestamp, 0) + amount)
    /\ call' = [op |-> "subtract", arg |-> timestamp, ret |-> None]
    /\ UNCHANGED <<grants, grants_ts, exp_ts, hashes>>

\* (mutant of get_balance: the debits are taken from the grant records
\* themselves, so a query leaves the consumed amounts behind)
get_balance_in_place(timestamp) ==
    /\ call' = [op |-> "get_balance", arg |-> timestamp,
                ret |-> GetBalance(timestamp)]
    /\ grants' = [g \in DOMAIN grants |->
                     IF g \in DOMAIN Replay(Locals0, 1, timestamp, hashes).amts
                     THEN [grants[g] EXCEPT !.amt =
                              Replay(Locals0, 1, timestamp, hashes).amts[g]]
                     ELSE grants[g]]
    /\ UNCHANGED <<timestamps, grants_ts, exp_ts, subtracts_ts, subtractions>>
    /\ UNCHANGED hashes

\* credits.py 42-82
get_balance(timestamp) ==
    /\ call' = [op |-> "get_balance", arg |-> timestamp,
                ret |-> GetBalance(timestamp)]
    /\ UNCHANGED ledgerVars
    /\ UNCHANGED hashes

\* the calls a client makes; short_before is what the client could observe
\* just before a recording call
NextLedger ==
    \/ \E sb \in {ShortNow} :
           \E t \in Timestamps, g \in GrantIds, a \in Amounts, e \in Timestamps :
               /\ OpsRecorded < MaxOps
               /\ create_grant(t, g, a, e)
               /\ short_before' = sb
               /\ UNCHANGED <<plan, earlier, consumerVars, generatorVars, agentVars>>
    \/ \E sb \in {ShortNow} :
           \E t \in Timestamps, a \in Amounts :
               /\ OpsRecorded < MaxOps
               /\ subtract(t, a)
               /\ short_before' = sb
               /\ UNCHANGED <<plan, earlier, consumerVars, generatorVars, agentVars>>
    \/ \E t \in Timestamps :
           /\ get_balance(t)
           /\ UNCHANGED short_before
           /\ UNCHANGED <<plan, earlier, consumerVars, generatorVars, agentVars>>

SpecLedger == InitLedger /\ [][NextLedger]_vars

\* ------------------------------ one set of calls, recorded in two orders
\* the grant ids of the plans and their hashes in one process
\* (PYTHONHASHSEED=0): "g3" and "g35" have the same home slot
PlanIds == {"g3", "g28", "g35"}

PlanHashes ==
    [g3  |-> <<30, 31, 8, 18, 3, 3, 17, 15, 3, 1, 18, 11, 14>>,
     g28 |-> <<29, 19, 30, 24, 25, 25, 13, 7, 23, 30, 4, 1, 9>>,
     g35 |-> <<30, 25, 18, 19, 21, 1, 2, 4, 10, 25, 16, 17, 6>>]

\* the create_grant calls for grant g: it expires after it is created
GrantCalls(g) ==
    {c \in [op : {"create_grant"}, ts : Timestamps, gid : {g}, amt : Amounts,
             ets : Timestamps] : c.ets > c.ts}

SubtractCalls ==
    {[op |-> "subtract", ts |-> t, amt |-> a] : t \in Timestamps, a \in Amounts}

\* a plan: one grant per id and one debit
Plans ==
    {{c1, c2, c3, d} : c1 \in GrantCalls("g3"), c2 \in GrantCalls("g28"),
                       c3 \in GrantCalls("g35"), d \in SubtractCalls}

\* the calls of the plan not yet made on the current ledger
Pending ==
    {c \in plan :
        \/ c.op = "create_grant" /\ c.gid \notin DOMAIN grants
        \/ c.op = "subtract" /\ subtractions = << >>}

\* get_balance(T) of the current ledger, for every T
Balances == [T \in Timestamps |-> GetBalance(T)]

InitReorder ==
    /\ timestamps = << >>
    /\ grants = << >>
    /\ grants_ts = << >>
    /\ exp_ts = << >>
    /\ subtracts_ts = << >>
    /\ subtractions = << >>
    /\ hashes = PlanHashes
    /\ call = [op |-> "__init__", arg |-> 0, ret |-> None]
    /\ short_before = 0
    /\ plan \in Plans
    /\ earlier = << >>
    /\ consumer = "none"
    /\ phase = "idle"
    /\ event = << >>
    /\ response = [shape |-> "none"]
    /\ outcomes = << >>
    /\ failed_records = << >>
    /\ calls = << >>
    /\ buckets = [user_activity |-> << >>, payments |-> << >>, unknown |-> << >>]
    /\ environ = << >>
    /\ order_alerts = FALSE
    /\ processed_payments = {}
    /\ handled = << >>
    /\ failed_before = {}
    /\ GeneratorIdle
    /\ AgentIdle

\* the client makes one of the pending create_grant calls
RecordGrant ==
    \E c \in Pending :
        /\ c.op = "create_grant"
        /\ create_grant(c.ts, c.gid, c.amt, c.ets)
        /\ UNCHANGED <<short_before, plan, earlier>>

\* the client makes the pending subtract call
RecordDebit ==
    \E c \in Pending :
        /\ c.op = "subtract"
        /\ subtract(c.ts, c.amt)
        /\ UNCHANGED <<short_before, plan, earlier>>

\* credits.py 14-20, main.py 5: with every call made, the client notes the
\* balances and starts again on a new ledger, credits = Credits()
SecondLedger ==
    /\ Pending = {}
    /\ earlier = << >>
    /\ earlier' = Balances
    /\ timestamps' = << >>
    /\ grants' = << >>
    /\ grants_ts' = << >>
    /\ exp_ts' = << >>
    /\ subtracts_ts' = << >>
    /\ subtractions' = << >>
    /\ call' = [op |-> "__init__", arg |-> 0, ret |-> None]
    /\ UNCHANGED <<hashes, short_before, plan>>

NextReorder ==
    \/ RecordGrant /\ UNCHANGED <<consumerVars, generatorVars, agentVars>>
    \/ RecordDebit /\ UNCHANGED <<consumerVars, generatorVars, agentVars>>
    \/ SecondLedger /\ UNCHANGED <<consumerVars, generatorVars, agentVars>>

SpecReorder == InitReorder /\ [][NextReorder]_vars

\* =====================================================================
\* The ledger's claims
\* =====================================================================

\* ---- the replay of section 4.1 of the specification, from the recorded
\* grants and debits alone (not from the timeline or the indexes)
Min(S) == CHOOSE x \in S : \A y \in S : x <= y

RECURSIVE DebitSum(_, _)
DebitSum(i, t) ==
    IF i > Len(subtractions) THEN 0
    ELSE (IF subtractions[i].ts = t THEN subtractions[i].amt ELSE 0)
         + DebitSum(i + 1, t)

\* the total of the debits recorded at t
DebitTotal(t) == DebitSum(1, t)

\* the distinct timestamps at which something is recorded
RefTimes ==
    {grants[g].ts : g \in DOMAIN grants} \cup {grants[g].ets : g \in DOMAIN grants}
    \cup {subtractions[i].ts : i \in DOMAIN subtractions}

\* take d from the available grants rem, soonest expiration first;
\* ok is FALSE when the grants do not cover d
RECURSIVE RefConsume(_, _)
RefConsume(rem, d) ==
    IF d = 0 THEN [ok |-> TRUE, rem |-> rem]
    ELSE IF DOMAIN rem = {} THEN [ok |-> FALSE, rem |-> rem]
    ELSE LET g == CHOOSE x \in DOMAIN rem :
                      \A y \in DOMAIN rem : grants[x].ets <= grants[y].ets
         IN  IF rem[g] > d THEN [ok |-> TRUE, rem |-> Put(rem, g, rem[g] - d)]
             ELSE RefConsume(Del(rem, g), d - rem[g])

RefAt(rem, t) ==
    LET created == {g \in DOMAIN grants : grants[g].ts = t}
        r1 == [g \in DOMAIN rem \cup created |->
                  IF g \in created THEN grants[g].amt ELSE rem[g]]
        r2 == [g \in {x \in DOMAIN r1 : grants[x].ets # t} |-> r1[g]]
    IN  RefConsume(r2, DebitTotal(t))

RECURSIVE RefReplay(_, _)
RefReplay(rem, times) ==
    IF times = {} THEN [ok |-> TRUE, rem |-> rem]
    ELSE LET t == Min(times)
             r == RefAt(rem, t)
         IN  IF r.ok THEN RefReplay(r.rem, times \ {t}) ELSE r

RefBalance(T) ==
    LET r == RefReplay(<< >>, {t \in RefTimes : t <= T})
    IN  IF r.ok THEN IntVal(SumValues(r.rem)) ELSE None

\* ---- vocabulary
Queried == call.op = "get_balance"

\* the remaining amount of grant g in the local grant_amts
Rem(ga, g) == IF g \in DOMAIN ga THEN ga[g] ELSE 0

\* the passes of the loop body made by the last query
Passes == Trace(call.arg)

\* C1: for every history and every query timestamp T, get_balance(T) is the
\* value of the specification's replay (each distinct timestamp <= T once,
\* in ascending order: activate, expire, then the debit total)
C1_EqualsReplay == Queried => call.ret = RefBalance(call.arg)

\* the first pass of the last query at timestamp t, if it got there
FirstPassAt(t) ==
    {e \in Range(Passes) :
        e.ts = t /\ \A f \in Range(Passes) : f.ts = t => e.i <= f.i}

\* C2: every recorded debit is applied exactly once: get_balance(t) is
\* lower than the balance just before the debits of t (after the
\* activations and expirations of t) by exactly their total, when funds
\* suffice -- also for two debits at one timestamp and for a debit at a
\* creation or expiration timestamp
C2_DebitOnce ==
    Queried =>
        \A e \in FirstPassAt(call.arg) :
            (/\ DebitTotal(e.ts) > 0
             /\ SumValues(e.exp.amts) >= DebitTotal(e.ts))
            => call.ret = IntVal(SumValues(e.exp.amts) - DebitTotal(e.ts))

\* a pass that applies a debit
Debits(e) == O3(e.ts) > 0 /\ e.out # "KeyError"

\* C3: a debit is taken soonest expiration first: a grant is reduced by a
\* debit only if every available grant of strictly earlier expiration was
\* consumed in full by it, and the debit goes on into the next grants until
\* it is exhausted (or the grants are)
C3_SoonestFirst ==
    Queried =>
        \A e \in Range(Passes) :
            Debits(e) =>
                /\ \A g \in e.exp.avail :
                       Rem(e.post.amts, g) < Rem(e.exp.amts, g)
                       => \A h \in e.exp.avail :
                              grants[h].ets < grants[g].ets
                              => h \notin DOMAIN e.post.amts
                /\ IF SumValues(e.exp.amts) >= O3(e.ts)
                   THEN /\ e.out = "run"
                        /\ SumValues(e.post.amts)
                               = SumValues(e.exp.amts) - O3(e.ts)
                   ELSE /\ e.out = "None"
                        /\ DOMAIN e.post.amts = {}

\* a debit that consumed the soonest-expiring grant in full and went on
\* into a grant of later expiration
C3_Witness ==
    /\ Queried
    /\ \E e \in Range(Passes) :
           /\ Debits(e)
           /\ \E g, h \in e.exp.avail :
                  /\ grants[h].ets < grants[g].ets
                  /\ h \notin DOMAIN e.post.amts
                  /\ g \in DOMAIN e.post.amts
                  /\ e.post.amts[g] < e.exp.amts[g]

\* C4: get_balance(T) is None exactly when some recorded debit with
\* timestamp <= T exceeds what the available grants hold when it is applied
\* (the replay of the specification runs short); else an integer; no
\* exception is raised
C4_NoneIffShort ==
    Queried =>
        /\ call.ret # KeyError
        /\ (call.ret = None) <=> (RefBalance(call.arg) = None)

\* C5: None is permanent: if get_balance(T) is None then so is
\* get_balance(T2) for every T2 >= T, and a create_grant whose creation
\* timestamp is later than the unsatisfied debit's leaves it so (the replay
\* still runs short, at that debit or before it)
C5_NonePermanent ==
    /\ (Queried /\ call.ret = None)
       => \A T2 \in Timestamps : T2 >= call.arg => GetBalance(T2) = None
    /\ (call.op = "create_grant" /\ short_before > 0 /\ call.arg > short_before)
       => (ShortNow > 0 /\ ShortNow <= short_before)

\* a grant of creation timestamp later than the short debit was recorded,
\* large enough to cover the debit
C5_Witness ==
    /\ call.op = "create_grant"
    /\ short_before > 0
    /\ call.arg > short_before
    /\ \E g \in DOMAIN grants :
           /\ grants[g].ts = call.arg
           /\ grants[g].amt >= DebitTotal(short_before)

\* the locals at the end of the last query
FinalAmts == Replay(Locals0, 1, call.arg, hashes).amts

\* C6: expiration forfeits the remainder: a grant with creation timestamp
\* <= expiration timestamp contributes nothing to get_balance(T) for
\* T >= its expiration, used or not
C6_ExpiredForfeited ==
    (Queried /\ call.ret.tag = "int") =>
        \A g \in DOMAIN grants :
            (grants[g].ts <= grants[g].ets /\ call.arg >= grants[g].ets)
            => g \notin DOMAIN FinalAmts

\* a query at the expiration timestamp of a grant that was partially used
C6_Witness ==
    /\ Queried
    /\ call.ret.tag = "int"
    /\ \E g \in DOMAIN grants :
           /\ grants[g].ts < grants[g].ets
           /\ call.arg = grants[g].ets
           /\ \E e \in Range(Passes) :
                  /\ g \in DOMAIN e.post.amts
                  /\ e.post.amts[g] < grants[g].amt

\* pass f comes before pass e, at the same timestamp
Revisits(f, e) == f.i < e.i /\ f.ts = e.ts

\* C7: within one timestamp the order is activation, expiration, debit, each
\* performed once: a grant created at t is available to the debit of t, a
\* grant expiring at t is not, a grant expiring when it is created is
\* available to no debit, and after the debit of t has been applied there is
\* no further activation, expiration or debit of t
C7_PhaseOrder ==
    Queried =>
        \A e \in Range(Passes) :
            /\ Debits(e) =>
                   \A g \in DOMAIN grants :
                       /\ (grants[g].ts = e.ts /\ grants[g].ets # e.ts)
                          => g \in e.exp.avail
                       /\ grants[g].ets = e.ts => g \notin e.exp.avail
                       /\ grants[g].ets = grants[g].ts => g \notin e.exp.avail
            /\ \A f \in Range(Passes) :
                   (Revisits(f, e) /\ Debits(f)) =>
                       /\ O1(e.ts) = << >>
                       /\ Range(O2(e.ts)) \cap DOMAIN e.act.amts = {}
                       /\ ~Debits(e)

\* grant g was activated in a pass before e
ActivatedBefore(g, e) ==
    \E f \in Range(Passes) : f.i < e.i /\ f.ts = grants[g].ts

\* C8: during a replay the remaining amount of a grant never exceeds its
\* original amount and, once the grant has been activated, only decreases
\* (by a debit, or by removal at expiration): it is never increased or reset
C8_RemainingDecreases ==
    Queried =>
        \A e \in Range(Passes) : \A g \in DOMAIN grants :
            /\ Rem(e.act.amts, g) <= grants[g].amt
            /\ Rem(e.exp.amts, g) <= Rem(e.act.amts, g)
            /\ Rem(e.post.amts, g) <= Rem(e.exp.amts, g)
            /\ ActivatedBefore(g, e) => Rem(e.act.amts, g) <= Rem(e.pre.amts, g)

\* C9: get_balance is a pure query: it leaves the timeline, the grants, the
\* two indexes and the debit totals as they were, and what it returns is
\* what a single query of that timestamp on the history returns, whatever
\* was queried before
C9_PureQuery ==
    [][Queried' =>
           /\ UNCHANGED ledgerVars
           /\ call'.ret = GetBalance(call'.arg)]_vars

\* a query answered with a positive balance, on a history with a grant and
\* a debit
C9_Witness ==
    /\ Queried
    /\ call.ret.tag = "int"
    /\ call.ret.val > 0
    /\ subtractions # << >>
    /\ DOMAIN grants # {}

\* =====================================================================
\* Part 2: the stream consumers
\* =====================================================================

\* the largest batch delivered to a handler
MaxBatch == 2

Consumers ==
    {"user_activity", "fraud_detector", "orders", "payments",
     "analytics_aggregator"}

\* kinesis_data.get("sequenceNumber") of an envelope without one, and of a
\* record without an envelope: None (falsy); real sequence numbers are >= 1
NoSeq == 0

\* a local name that was never assigned
Unbound == 0 - 1

\* ---- texts.  A text is the sequence of its characters.
UpperCase ==
    <<"A", "B", "C", "D", "E", "F", "G", "H", "I", "J", "K", "L", "M",
      "N", "O", "P", "Q", "R", "S", "T", "U", "V", "W", "X", "Y", "Z">>

LowerCase ==
    <<"a", "b", "c", "d", "e", "f", "g", "h", "i", "j", "k", "l", "m",
      "n", "o", "p", "q", "r", "s", "t", "u", "v", "w", "x", "y", "z">>

LowerChar(c) ==
    IF \E i \in DOMAIN UpperCase : UpperCase[i] = c
    THEN LowerCase[CHOOSE i \in DOMAIN UpperCase : UpperCase[i] = c]
    ELSE c

\* str.lower() that leaves the text as it is
Lower_identity(text) == text

\* str.lower()
Lower(text) == [i \in DOMAIN text |-> LowerChar(text[i])]

\* needle in text
Contains(needle, text) ==
    \E k \in 0..(Len(text) - Len(needle)) :
        SubSeq(text, k + 1, k + Len(needle)) = needle

\* ---- the batch elements.  A record is described by what the handlers
\* read of it:
\*   kin   "ok"      record["kinesis"] has sequenceNumber, partitionKey, data
\*         "noseq"   ... has no sequenceNumber
\*         "nopk"    ... has no partitionKey
\*         "nodata"  ... has no data
\*         "none"    the record has no "kinesis" key
\*   body  "obj"     data decodes to a JSON object
\*         "notobj"  data decodes to JSON that is not an object
\*         "badjson" data is base64 of text that is not JSON
\*         "badb64"  data is not base64 of UTF-8 text
\*   arn   the text of record.get("eventSourceARN", "")
\*   p     the fields of the payload the handlers read ("" or 0: absent)
\*   seq   the sequence number (set at delivery)
NoArn == << >>
NoFields == [none |-> ""]

Rec(kin, body, arn, p) == [kin |-> kin, body |-> body, arn |-> arn, p |-> p]

OrderTypes == {"created", "updated", "cancelled", "fulfilled"}
PaymentTypes == {"initiated", "authorized", "captured", "refunded", "failed"}

OrderPayloads ==
    {[order_id |-> o, customer_id |-> c, type |-> "created", total_amount |-> a] :
        o \in {"", "o1"}, c \in {"", "c1"}, a \in {0, 1001}}
    \cup
    {[order_id |-> "o1", customer_id |-> "c1", type |-> t, total_amount |-> a] :
        t \in OrderTypes \cup {"", "returned"}, a \in {0, 1000, 1001}}

PaymentPayloads ==
    {[payment_id |-> q, order_id |-> o, type |-> "initiated", amount |-> a] :
        q \in {"", "p1"}, o \in {"", "o1"}, a \in {0, 50}}
    \cup
    {[payment_id |-> "p1:x", order_id |-> "o1", type |-> "initiated", amount |-> 50]}
    \cup
    {[payment_id |-> "p1", order_id |-> "o1", type |-> t, amount |-> 50] :
        t \in PaymentTypes \cup {"", "chargeback", "x:initiated"}}

\* what the analytics aggregator reads of a payload in its correlation
AggregatorPayloads ==
    {[user_id |-> "", customer_id |-> ""],
     [user_id |-> "u1", customer_id |-> "u1"],
     [user_id |-> "u2", customer_id |-> "u2"],
     [user_id |-> "u1", customer_id |-> "u2"]}

Payloads(c) ==
    CASE c = "orders" -> OrderPayloads
      [] c = "payments" -> PaymentPayloads
      [] c = "analytics_aggregator" -> AggregatorPayloads
      [] OTHER -> {NoFields}

\* the names the analytics aggregator looks for in the source ARN
UserActivityName ==
    <<"u", "s", "e", "r", "_", "a", "c", "t", "i", "v", "i", "t", "y">>

PaymentsName == <<"p", "a", "y", "m", "e", "n", "t", "s">>

\* the source ARNs of the records whose payload is varied
Arns(c) ==
    IF c = "analytics_aggregator"
    THEN {UserActivityName, PaymentsName}
    ELSE {NoArn}

\* further source ARNs: none, "orders", "USER_ACTIVITY", "x/Payments2",
\* "payments/User_Activity", "user-activity"
OtherArns(c) ==
    IF c = "analytics_aggregator"
    THEN {NoArn,
          <<"o", "r", "d", "e", "r", "s">>,
          <<"U", "S", "E", "R", "_", "A", "C", "T", "I", "V", "I", "T", "Y">>,
          <<"x", "/", "P", "a", "y", "m", "e", "n", "t", "s", "2">>,
          PaymentsName \o <<"/", "U">> \o SubSeq(UserActivityName, 2, 5)
              \o <<"A">> \o SubSeq(UserActivityName, 7, 13),
          <<"u", "s", "e", "r", "-", "a", "c", "t", "i", "v", "i", "t", "y">>}
    ELSE {}

\* the records a batch of consumer c is made of; a record whose data does
\* not decode fails before its source is looked at, so it carries none
Records(c) ==
    {Rec("ok", "obj", a, p) : a \in Arns(c), p \in Payloads(c)}
    \cup {Rec("ok", "obj", a, [user_id |-> "", customer_id |-> ""]) :
              a \in OtherArns(c)}
    \cup {Rec("ok", "notobj", a, NoFields) : a \in Arns(c) \cup {NoArn}}
    \cup {Rec("ok", b, NoArn, NoFields) : b \in {"badjson", "badb64"}}
    \cup {Rec(k, "obj", NoArn, NoFields) :
              k \in {"noseq", "nodata", "none"}
                    \cup (IF c = "user_activity" THEN {"nopk"} ELSE {})}
    \cup {Rec("noseq", "badjson", NoArn, NoFields)}

\* the analytics aggregator is given one record more, so that a batch can
\* hold two records of one source and one of the other
MaxBatchOf(c) == IF c = "analytics_aggregator" THEN MaxBatch + 1 ELSE MaxBatch

Batches(c) == UNION {[1..n -> Records(c)] : n \in 0..MaxBatchOf(c)}

\* the i-th record of a delivered batch carries sequence number i
Delivered(b) ==
    [i \in DOMAIN b |->
        [kin |-> b[i].kin, body |-> b[i].body, arn |-> b[i].arn,
         p |-> b[i].p, seq |-> i]]

\* ---- what one pass of a handler's record loop reads and raises

\* kinesis_data.get("sequenceNumber") for the envelope of rec, which is also
\* record.get("kinesis", {}).get("sequenceNumber")
SeqOf(rec) == IF rec.kin \in {"ok", "nopk", "nodata"} THEN rec.seq ELSE NoSeq

\* the exception raised by the envelope reads and the decoding of rec, "" if
\* none; readsSeq, readsPk: the handler reads kinesis_data["sequenceNumber"],
\* kinesis_data["partitionKey"] before the data
DecodeExc(rec, readsSeq, readsPk) ==
    IF rec.kin = "none" THEN "KeyError"
    ELSE IF readsSeq /\ rec.kin = "noseq" THEN "KeyError"
    ELSE IF readsPk /\ rec.kin = "nopk" THEN "KeyError"
    ELSE IF rec.kin = "nodata" THEN "KeyError"
    ELSE IF rec.body = "badb64" THEN "ValueError"
    ELSE IF rec.body = "badjson" THEN "JSONDecodeError"
    ELSE ""

\* payload.get(...) on a payload that is not an object
GetExc(rec) == IF rec.body = "notobj" THEN "AttributeError" ELSE ""

\* the locals of process_event before the loop
Loop0 ==
    [successful_records |-> 0,
     failed_records |-> << >>,
     kinesis_data |-> Unbound,
     raised |-> "",
     raised_at |-> 0,
     outcomes |-> << >>,
     calls |-> << >>,
     processed |-> processed_payments,
     user_activity_records |-> << >>,
     payment_records |-> << >>,
     unknown_records |-> << >>]

\* successful_records += 1
Succeed(st) ==
    [st EXCEPT !.successful_records = @ + 1, !.outcomes = Append(@, "ok")]

\* failed_records.append({"sequenceNumber": seq, "error": ...})
Fail(st, seq, error) ==
    [st EXCEPT !.failed_records =
                   Append(@, [sequenceNumber |-> seq, error |-> error]),
               !.outcomes = Append(@, "fail")]

\* an exception that leaves process_event
Raise(st, exc) ==
    [st EXCEPT !.raised = exc,
               !.raised_at = Len(st.outcomes) + 1,
               !.outcomes = Append(@, "fail")]

Call(st, stub, rec) ==
    [st EXCEPT !.calls = Append(@, [stub |-> stub, seq |-> rec.seq])]

\* user_activity: kinesis_data is not reset per record, and the handlers of
\* JSONDecodeError and KeyError read it
user_activity_record(st, rec) ==
    LET exc == DecodeExc(rec, TRUE, TRUE)
        kd  == IF rec.kin = "none" THEN st.kinesis_data ELSE SeqOf(rec)
        st1 == [st EXCEPT !.kinesis_data = kd]
    IN  IF exc = "JSONDecodeError" THEN Fail(st1, kd, "Invalid JSON")
        ELSE IF exc = "KeyError"
        THEN IF kd = Unbound THEN Raise(st1, "UnboundLocalError")
             ELSE Fail(st1, kd, "Missing field")
        ELSE IF exc # "" \/ GetExc(rec) # "" THEN Fail(st1, SeqOf(rec), "")
        ELSE Succeed(st1)

\* fraud_detector: the sequence number is not read in the try block; a
\* failure is recorded only if the record has one
fraud_detector_record(st, rec) ==
    IF DecodeExc(rec, FALSE, FALSE) # "" \/ GetExc(rec) # ""
    THEN IF SeqOf(rec) # NoSeq
         THEN [st EXCEPT !.failed_records =
                             Append(@, [itemIdentifier |-> SeqOf(rec)]),
                         !.outcomes = Append(@, "fail")]
         ELSE [st EXCEPT !.outcomes = Append(@, "fail")]
    ELSE [st EXCEPT !.outcomes = Append(@, "ok")]

\* the error prefix of the except clause that catches exc in orders and
\* payments: JSONDecodeError, then ValueError, then Exception
Classify(exc) ==
    CASE exc = "JSONDecodeError" -> "Invalid JSON"
      [] exc = "ValueError" -> "Validation error"
      [] OTHER -> ""

\* orders_record with an unknown type failing the record, as in payments
orders_record_strict(st, rec) ==
    LET exc == DecodeExc(rec, TRUE, FALSE)
    IN  IF exc # "" THEN Fail(st, SeqOf(rec), Classify(exc))
        ELSE IF GetExc(rec) # "" THEN Fail(st, SeqOf(rec), "")
        ELSE IF rec.p.order_id = "" \/ rec.p.customer_id = ""
        THEN Fail(st, SeqOf(rec), "Validation error")
        ELSE IF rec.p.type \notin OrderTypes
        THEN Fail(st, SeqOf(rec), "Validation error")
        ELSE LET st1 == Call(st, rec.p.type, rec)
                 st2 == IF order_alerts /\ rec.p.total_amount > 1000
                        THEN Call(st1, "high_value_alert", rec) ELSE st1
             IN  Succeed(st2)

\* orders_record with the validation made after the dispatch and the alert
orders_record_validate_last(st, rec) ==
    LET exc == DecodeExc(rec, TRUE, FALSE)
    IN  IF exc # "" THEN Fail(st, SeqOf(rec), Classify(exc))
        ELSE IF GetExc(rec) # "" THEN Fail(st, SeqOf(rec), "")
        ELSE LET st1 == IF rec.p.type \in OrderTypes
                        THEN Call(st, rec.p.type, rec) ELSE st
                 st2 == IF order_alerts /\ rec.p.total_amount > 1000
                        THEN Call(st1, "high_value_alert", rec) ELSE st1
             IN  IF rec.p.order_id = "" \/ rec.p.customer_id = ""
                 THEN Fail(st2, SeqOf(rec), "Validation error")
                 ELSE Succeed(st2)

orders_record(st, rec) ==
    LET exc == DecodeExc(rec, TRUE, FALSE)
    IN  IF exc # "" THEN Fail(st, SeqOf(rec), Classify(exc))
        ELSE IF GetExc(rec) # "" THEN Fail(st, SeqOf(rec), "")
        ELSE IF rec.p.order_id = "" \/ rec.p.customer_id = ""
        THEN Fail(st, SeqOf(rec), "Validation error")
        ELSE LET st1 == IF rec.p.type \in OrderTypes
                        THEN Call(st, rec.p.type, rec) ELSE st
                 st2 == IF order_alerts /\ rec.p.total_amount > 1000
                        THEN Call(st1, "high_value_alert", rec) ELSE st1
             IN  Succeed(st2)

\* how an f-string renders a field: an absent one (None) reads "None"
Str(v) == IF v = "" THEN "None" ELSE v

\* the key is the SHA-256 digest of f"{payment_id}:{payment_type}"; the
\* digest is taken to be injective and the key is modelled by the text
generate_idempotency_key(payment_id, payment_type) ==
    Str(payment_id) \o ":" \o Str(payment_type)

\* payments_record without the idempotency check of lines 77-81
payments_record_unchecked(st, rec) ==
    LET exc == DecodeExc(rec, TRUE, FALSE)
        key == generate_idempotency_key(rec.p.payment_id, rec.p.type)
    IN  IF exc # "" THEN Fail(st, SeqOf(rec), Classify(exc))
        ELSE IF GetExc(rec) # "" THEN Fail(st, SeqOf(rec), "")
        ELSE IF rec.p.payment_id = "" \/ rec.p.order_id = "" \/ rec.p.amount <= 0
        THEN Fail(st, SeqOf(rec), "Validation error")
        ELSE IF rec.p.type \notin PaymentTypes
        THEN Fail(st, SeqOf(rec), "Validation error")
        ELSE Succeed([Call(st, rec.p.type, rec) EXCEPT !.processed = @ \cup {key}])

\* payments_record with the idempotency check made before the validation
payments_record_check_first(st, rec) ==
    LET exc == DecodeExc(rec, TRUE, FALSE)
        key == generate_idempotency_key(rec.p.payment_id, rec.p.type)
    IN  IF exc # "" THEN Fail(st, SeqOf(rec), Classify(exc))
        ELSE IF GetExc(rec) # "" THEN Fail(st, SeqOf(rec), "")
        ELSE IF key \in st.processed THEN Succeed(st)
        ELSE IF rec.p.payment_id = "" \/ rec.p.order_id = "" \/ rec.p.amount <= 0
        THEN Fail(st, SeqOf(rec), "Validation error")
        ELSE IF rec.p.type \notin PaymentTypes
        THEN Fail(st, SeqOf(rec), "Validation error")
        ELSE Succeed([Call(st, rec.p.type, rec) EXCEPT !.processed = @ \cup {key}])

payments_record(st, rec) ==
    LET exc == DecodeExc(rec, TRUE, FALSE)
        key == generate_idempotency_key(rec.p.payment_id, rec.p.type)
    IN  IF exc # "" THEN Fail(st, SeqOf(rec), Classify(exc))
        ELSE IF GetExc(rec) # "" THEN Fail(st, SeqOf(rec), "")
        ELSE IF rec.p.payment_id = "" \/ rec.p.order_id = "" \/ rec.p.amount <= 0
        THEN Fail(st, SeqOf(rec), "Validation error")
        ELSE IF key \in st.processed THEN Succeed(st)
        ELSE IF rec.p.type \notin PaymentTypes
        THEN Fail(st, SeqOf(rec), "Validation error")
        ELSE Succeed([Call(st, rec.p.type, rec) EXCEPT !.processed = @ \cup {key}])

\* the routing without the .lower() of lines 58 and 64
analytics_aggregator_record_case_sensitive(st, rec) ==
    LET exc == DecodeExc(rec, TRUE, FALSE)
    IN  IF exc # ""
        THEN Fail(st, SeqOf(rec),
                  IF exc = "JSONDecodeError" THEN "Invalid JSON" ELSE "")
        ELSE IF Contains(UserActivityName, rec.arn)
        THEN Succeed([st EXCEPT !.user_activity_records = Append(@, rec)])
        ELSE IF Contains(PaymentsName, rec.arn)
        THEN Succeed([st EXCEPT !.payment_records = Append(@, rec)])
        ELSE Succeed([st EXCEPT !.unknown_records = Append(@, rec)])

analytics_aggregator_record(st, rec) ==
    LET exc == DecodeExc(rec, TRUE, FALSE)
    IN  IF exc # ""
        THEN Fail(st, SeqOf(rec),
                  IF exc = "JSONDecodeError" THEN "Invalid JSON" ELSE "")
        ELSE IF Contains(UserActivityName, Lower(rec.arn))
        THEN Succeed([st EXCEPT !.user_activity_records = Append(@, rec)])
        ELSE IF Contains(PaymentsName, Lower(rec.arn))
        THEN Succeed([st EXCEPT !.payment_records = Append(@, rec)])
        ELSE Succeed([st EXCEPT !.unknown_records = Append(@, rec)])

Step(c, st, rec) ==
    CASE c = "user_activity" -> user_activity_record(st, rec)
      [] c = "fraud_detector" -> fraud_detector_record(st, rec)
      [] c = "orders" -> orders_record(st, rec)
      [] c = "payments" -> payments_record(st, rec)
      [] c = "analytics_aggregator" -> analytics_aggregator_record(st, rec)

\* for record in event.get("Records", []), until an exception leaves the
\* function
RECURSIVE ForEach(_, _, _, _)
ForEach(c, st, records, i) ==
    IF i > Len(records) \/ st.raised # "" THEN st
    ELSE ForEach(c, Step(c, st, records[i]), records, i + 1)

Loop(c) == ForEach(c, Loop0, event, 1)

\* ---- the results of process_event

NoResponse == [shape |-> "none"]

\* the three buckets of the analytics aggregator, empty
NoBuckets == [user_activity |-> << >>, payments |-> << >>, unknown |-> << >>]

\* an exception left process_event: the invocation has no result; at is
\* the position of the record whose processing raised it, 0 if it was
\* raised after the loop
Raised(exc, at) == [shape |-> "raised", exc |-> exc, at |-> at]

Truthy(f) == f.sequenceNumber # NoSeq

\* {"batchItemFailures": [{"itemIdentifier": f["sequenceNumber"]}
\*     for f in failed_records if f.get("sequenceNumber")]}
RetryList(failed) ==
    LET listed == SelectSeq(failed, Truthy)
    IN  [shape |-> "retry",
         batchItemFailures |->
             [i \in DOMAIN listed |-> [itemIdentifier |-> listed[i].sequenceNumber]]]

\* result = {"batchSize": ..., "successfulRecords": ..., "failedRecords": ...,
\*           "failures": failed_records}
Summary(st) ==
    [shape |-> "summary",
     batchSize |-> Len(event),
     successfulRecords |-> st.successful_records,
     failedRecords |-> Len(st.failed_records),
     failures |-> st.failed_records]

\* if failed_records: return {"batchItemFailures": ...}; return result
Result(st, result) ==
    IF st.raised # "" THEN Raised(st.raised, st.raised_at)
    ELSE IF st.failed_records # << >> THEN RetryList(st.failed_records)
    ELSE result

\* ---- the aggregation passes of the analytics aggregator, which run after
\* the loop and outside its try block

\* record["payload"].get(...) for each record of the bucket
PassExc(records) ==
    IF \E i \in DOMAIN records : GetExc(records[i]) # ""
    THEN "AttributeError" ELSE ""

\* the sequence numbers of the records of a bucket
SeqsOf(records) == [i \in DOMAIN records |-> records[i].seq]

\* a pass is called with the records of the given buckets
Pass(st, stub, passed, exc) ==
    IF st.raised # "" THEN st
    ELSE [st EXCEPT !.calls = Append(@, [stub |-> stub, seq |-> NoSeq,
                                         passed |-> SeqsOf(passed)]),
                    !.raised = exc]

\* the keys of activity_by_user: the truthy user_id values
ActivityByUser(ua) == {ua[i].p.user_id : i \in DOMAIN ua} \ {""}

\* the keys of payments_by_customer: the truthy customer_id values
PaymentsByCustomer(pay) == {pay[i].p.customer_id : i \in DOMAIN pay} \ {""}

\* correlated_users = set(activity_by_user.keys()) & set(payments_by_customer.keys())
CorrelatedUsers(ua, pay) == ActivityByUser(ua) \cap PaymentsByCustomer(pay)

\* _correlate_activity_and_payments: the call and the count it reports
Correlate(st, ua, pay) ==
    IF st.raised # "" THEN st
    ELSE IF PassExc(ua \o pay) # ""
    THEN Pass(st, "_correlate_activity_and_payments", ua \o pay,
              "AttributeError")
    ELSE [st EXCEPT !.calls =
              Append(@, [stub |-> "_correlate_activity_and_payments",
                         seq |-> NoSeq,
                         passed |-> SeqsOf(ua \o pay),
                         correlated |-> Cardinality(CorrelatedUsers(ua, pay))])]

Aggregate(st) ==
    LET ua  == st.user_activity_records
        pay == st.payment_records
        s1  == IF ua # << >>
               THEN Pass(st, "_process_user_activity_batch", ua, PassExc(ua))
               ELSE st
        s2  == IF pay # << >>
               THEN Pass(s1, "_process_payment_batch", pay, PassExc(pay))
               ELSE s1
    IN  IF ua # << >> /\ pay # << >>
        THEN Correlate(s2, ua, pay)
        ELSE s2

\* the pair of payment_id and type that a per-type handler is called for
PairOf(rec) == <<rec.p.payment_id, rec.p.type>>

\* h with one more call counted for the pair of each of the calls cs[i..]
RECURSIVE Tally(_, _, _)
Tally(h, cs, i) ==
    IF i > Len(cs) THEN h
    ELSE LET pair == PairOf(event[cs[i].seq])
         IN  Tally(Put(h, pair, Get(h, pair, 0) + 1), cs, i + 1)

\* ---- the environment of the Orders Consumer

\* os.environ.get("ENABLE_ORDER_ALERTS", "false").lower() == "true"
OrderAlerts(env) ==
    Lower(Get(env, "ENABLE_ORDER_ALERTS", <<"f", "a", "l", "s", "e">>))
        = <<"t", "r", "u", "e">>

\* the environments a process is started with: the variable unset, or set
\* to one of these texts
AlertTexts ==
    {<<"t", "r", "u", "e">>, <<"T", "R", "U", "E">>, <<"T", "r", "u", "e">>,
     <<"f", "a", "l", "s", "e">>, <<"t", "r", "u", "e", " ">>, <<"1">>}

Environs ==
    {<< >>} \cup {[n \in {"ENABLE_ORDER_ALERTS"} |-> t] : t \in AlertTexts}

\* ---- the actions

InitConsumers ==
    /\ consumer \in Consumers
    /\ phase = "idle"
    /\ event = << >>
    /\ response = NoResponse
    /\ outcomes = << >>
    /\ failed_records = << >>
    /\ calls = << >>
    /\ buckets = NoBuckets
    /\ environ \in (IF consumer = "orders" THEN Environs ELSE {<< >>})
    /\ order_alerts = OrderAlerts(environ)
    /\ processed_payments = {}
    /\ handled = << >>
    /\ failed_before = {}
    /\ GeneratorIdle
    /\ AgentIdle
    /\ timestamps = << >>
    /\ grants = << >>
    /\ grants_ts = << >>
    /\ exp_ts = << >>
    /\ subtracts_ts = << >>
    /\ subtractions = << >>
    /\ hashes \in {CHOOSE hs \in Layouts : TRUE}
    /\ call = [op |-> "__init__", arg |-> 0, ret |-> None]
    /\ short_before = 0
    /\ plan = {}
    /\ earlier = << >>

\* the platform invokes the handler with a batch
Invoke(records) ==
    /\ phase = "idle"
    /\ phase' = "invoked"
    /\ event' = Delivered(records)
    /\ UNCHANGED <<consumer, response, outcomes, failed_records, calls,
                   buckets, environ, order_alerts, processed_payments, handled>>

\* what is common to the five handlers: the invocation ends with the locals
\* st and the result res
Return(st, res) ==
    /\ phase' = "responded"
    /\ response' = res
    /\ outcomes' = st.outcomes
    /\ failed_records' = st.failed_records
    /\ calls' = st.calls
    /\ buckets' = [user_activity |-> SeqsOf(st.user_activity_records),
                   payments |-> SeqsOf(st.payment_records),
                   unknown |-> SeqsOf(st.unknown_records)]
    /\ UNCHANGED <<consumer, event, environ, order_alerts>>

process_event_user_activity ==
    /\ consumer = "user_activity"
    /\ phase = "invoked"
    /\ LET st == Loop("user_activity") IN Return(st, Result(st, Summary(st)))
    /\ UNCHANGED <<processed_payments, handled>>

process_event_fraud_detector ==
    /\ consumer = "fraud_detector"
    /\ phase = "invoked"
    /\ LET st == Loop("fraud_detector")
       IN  Return(st, IF st.failed_records # << >>
                      THEN [shape |-> "retry",
                            batchItemFailures |-> st.failed_records]
                      ELSE [shape |-> "summary", status |-> "ok",
                            processed |-> Len(event)])
    /\ UNCHANGED <<processed_payments, handled>>

process_event_orders ==
    /\ consumer = "orders"
    /\ phase = "invoked"
    /\ LET st == Loop("orders") IN Return(st, Result(st, Summary(st)))
    /\ UNCHANGED <<processed_payments, handled>>

process_event_payments ==
    /\ consumer = "payments"
    /\ phase = "invoked"
    /\ LET st == Loop("payments")
       IN  /\ Return(st, Result(st, Summary(st)))
           /\ processed_payments' = st.processed
           /\ handled' = Tally(handled, st.calls, 1)

process_event_analytics_aggregator ==
    /\ consumer = "analytics_aggregator"
    /\ phase = "invoked"
    /\ LET st == Aggregate(Loop("analytics_aggregator"))
       IN  Return(st, Result(st,
               [shape |-> "summary",
                batchSize |-> Len(event),
                successfulRecords |-> st.successful_records,
                failedRecords |-> Len(st.failed_records),
                breakdown |->
                    [userActivityRecords |-> Len(st.user_activity_records),
                     paymentRecords |-> Len(st.payment_records),
                     unknownRecords |-> Len(st.unknown_records)]]))
    /\ UNCHANGED <<processed_payments, handled>>

\* the platform has taken the result; the process stays warm
Complete ==
    /\ phase = "responded"
    /\ phase' = "idle"
    /\ event' = << >>
    /\ response' = NoResponse
    /\ outcomes' = << >>
    /\ failed_records' = << >>
    /\ calls' = << >>
    /\ buckets' = NoBuckets
    /\ UNCHANGED <<consumer, environ, order_alerts, processed_payments, handled>>

NextConsumers ==
    \/ /\ phase = "idle"
       /\ \E records \in Batches(consumer) : Invoke(records)
       /\ UNCHANGED <<failed_before, ledgerVars, clientVars, generatorVars, agentVars>>
    \/ process_event_user_activity /\ UNCHANGED <<failed_before, ledgerVars, clientVars, generatorVars, agentVars>>
    \/ process_event_fraud_detector /\ UNCHANGED <<failed_before, ledgerVars, clientVars, generatorVars, agentVars>>
    \/ process_event_orders /\ UNCHANGED <<failed_before, ledgerVars, clientVars, generatorVars, agentVars>>
    \/ process_event_payments /\ UNCHANGED <<failed_before, ledgerVars, clientVars, generatorVars, agentVars>>
    \/ process_event_analytics_aggregator /\ UNCHANGED <<failed_before, ledgerVars, clientVars, generatorVars, agentVars>>
    \/ Complete /\ UNCHANGED <<failed_before, ledgerVars, clientVars, generatorVars, agentVars>>

SpecConsumers == InitConsumers /\ [][NextConsumers]_vars

\* ------------------- a payments process whose stream delivers records again
\* the records of its stream: payments "p1:x"/"initiated" and
\* "p1"/"x:initiated" (an unknown type), a payment of a known type, one
\* without an amount, and a record that is not JSON
RedeliveryRecords ==
    {Rec("ok", "obj", NoArn,
         [payment_id |-> q[1], order_id |-> "o1", type |-> q[2], amount |-> q[3]]) :
        q \in {<<"p1:x", "initiated", 50>>, <<"p1", "x:initiated", 50>>,
               <<"p1", "initiated", 50>>, <<"p1", "initiated", 0>>}}
    \cup {Rec("ok", "badjson", NoArn, NoFields)}

RedeliveryBatches == UNION {[1..n -> RedeliveryRecords] : n \in 1..MaxBatch}

\* the records of the current batch that failed
FailedNow(oc) == {Rec(event[i].kin, event[i].body, event[i].arn, event[i].p) : i \in {j \in DOMAIN event : oc[j] = "fail"}}

InitRedelivery ==
    /\ InitConsumers
    /\ consumer = "payments"

NextRedelivery ==
    \/ /\ phase = "idle"
       /\ \E records \in RedeliveryBatches : Invoke(records)
       /\ UNCHANGED <<failed_before, ledgerVars, clientVars, generatorVars, agentVars>>
    \/ /\ process_event_payments
       /\ failed_before' = failed_before \cup FailedNow(outcomes')
       /\ UNCHANGED <<ledgerVars, clientVars, generatorVars, agentVars>>
    \/ Complete /\ UNCHANGED <<failed_before, ledgerVars, clientVars, generatorVars, agentVars>>

SpecRedelivery == InitRedelivery /\ [][NextRedelivery]_vars

\* =====================================================================
\* The consumers' claims
\* =====================================================================

Responded == phase = "responded"

\* some record of the batch failed
AnyFailed == \E i \in DOMAIN outcomes : outcomes[i] = "fail"

\* C10: in each of the five consumers and for every batch, the result is the
\* retry list {batchItemFailures: [...]} if and only if at least one record
\* of the batch failed, and the consumer's summary if and only if no record
\* failed
C10_ShapeByFailure ==
    Responded =>
        /\ response.shape = "retry" <=> AnyFailed
        /\ response.shape = "summary" <=> ~AnyFailed

\* the sequence numbers named by a retry list
Listed ==
    {response.batchItemFailures[i].itemIdentifier :
        i \in DOMAIN response.batchItemFailures}

\* the i-th record of the batch was reached by the loop and failed
FailedAt(i) == i \in DOMAIN outcomes /\ outcomes[i] = "fail"

\* the i-th record of the batch was processed successfully
SucceededAt(i) == i \in DOMAIN outcomes /\ outcomes[i] = "ok"

\* C11: when a batch has failures the retry list names exactly the failed
\* records: every itemIdentifier is the sequence number of a record of the
\* batch that itself failed, every failed record that carries a sequence
\* number is listed, and no successfully processed record is listed,
\* whatever the position of the failing record
C11_RetryListExact ==
    (Responded /\ response.shape = "retry") =>
        /\ \A id \in Listed :
               \E i \in DOMAIN event : SeqOf(event[i]) = id /\ FailedAt(i)
        /\ \A i \in DOMAIN event :
               (FailedAt(i) /\ SeqOf(event[i]) # NoSeq)
               => SeqOf(event[i]) \in Listed
        /\ \A i \in DOMAIN event :
               SucceededAt(i) => SeqOf(event[i]) \notin Listed

\* the i-th element of the batch has no "kinesis" envelope
NoEnvelope(i) == event[i].kin = "none"

\* the number of failed records among the first i of the batch
RECURSIVE FailuresUpTo(_)
FailuresUpTo(i) ==
    IF i = 0 THEN 0
    ELSE FailuresUpTo(i - 1) + (IF FailedAt(i) THEN 1 ELSE 0)

\* C12: a batch element without a kinesis envelope is recorded as one failed
\* record with no sequence number, in each of the five consumers:
\* process_event does not raise on it, the failure is not attributed to
\* another record, and the rest of the batch is still processed
C12_NoEnvelopeFails ==
    Responded =>
        \A i \in DOMAIN event :
            NoEnvelope(i) =>
                /\ ~(response.shape = "raised" /\ response.at > 0)
                /\ Len(outcomes) = Len(event)
                /\ FailedAt(i)
                /\ Len(failed_records) = FailuresUpTo(Len(event))
                /\ failed_records[FailuresUpTo(i)].sequenceNumber = NoSeq

\* the data of the i-th record cannot be read, decoded or parsed
Undecodable(i) == DecodeExc(event[i], FALSE, FALSE) # ""

\* C13: the Fraud Detector returns {status: "ok", processed: count} only
\* when no record of the batch failed; if a record failed to decode or parse
\* (a record without envelope or without sequence number included) the
\* result is the retry list, never the ok structure
C13_FraudOkOnlyClean ==
    (Responded /\ consumer = "fraud_detector") =>
        /\ (response.shape = "summary" /\ response.status = "ok") => ~AnyFailed
        /\ (\E i \in DOMAIN event : Undecodable(i)) => response.shape = "retry"

\* the record decodes to a payment with payment_id and order_id present and
\* amount > 0
ValidPayment(rec) ==
    /\ rec.kin = "ok"
    /\ rec.body = "obj"
    /\ rec.p.payment_id # ""
    /\ rec.p.order_id # ""
    /\ rec.p.amount > 0

\* a stub was called for the i-th record of the batch
CalledFor(i) == \E j \in DOMAIN calls : calls[j].seq = i

\* the calls of this invocation for the pair
CallsNow(pair) ==
    Cardinality({j \in DOMAIN calls : PairOf(event[calls[j].seq]) = pair})

\* the pair of the i-th record was dispatched in an earlier batch
DispatchedEarlier(i) ==
    Get(handled, PairOf(event[i]), 0) - CallsNow(PairOf(event[i])) >= 1

\* the pair of the i-th record was dispatched for an earlier record of this
\* batch
DispatchedAbove(i) ==
    \E j \in DOMAIN calls :
        calls[j].seq < i /\ PairOf(event[calls[j].seq]) = PairOf(event[i])

\* C14: payments idempotency: over all the batches handled by one process
\* the per-type handler is called at most once for each (payment_id, type);
\* a later valid record with a pair already dispatched, in the same batch or
\* an earlier one, is counted as successful and the handler is not called
\* again
C14_Idempotent ==
    consumer = "payments" =>
        /\ \A pair \in DOMAIN handled : handled[pair] <= 1
        /\ Responded =>
               \A i \in DOMAIN event :
                   (/\ ValidPayment(event[i])
                    /\ DispatchedEarlier(i) \/ DispatchedAbove(i))
                   => SucceededAt(i) /\ ~CalledFor(i)

\* a valid record whose pair was dispatched in an earlier batch, skipped
C14_Witness ==
    /\ consumer = "payments"
    /\ Responded
    /\ \E i \in DOMAIN event :
           /\ ValidPayment(event[i])
           /\ DispatchedEarlier(i)
           /\ SucceededAt(i)
           /\ ~CalledFor(i)
           /\ response.shape = "summary"

\* the i-th record is named by the retry list of the result
InRetryList(i) ==
    /\ response.shape = "retry"
    /\ SeqOf(event[i]) # NoSeq
    /\ SeqOf(event[i]) \in Listed

\* C15: in the Payments Consumer every record with payment_id and order_id
\* present and amount > 0 whose type is outside {initiated, authorized,
\* captured, refunded, failed} fails and appears in the retry list, whatever
\* the processed-set holds; it is never counted as successful
C15_UnknownPaymentTypeFails ==
    (consumer = "payments" /\ Responded) =>
        \A i \in DOMAIN event :
            (ValidPayment(event[i]) /\ event[i].p.type \notin PaymentTypes)
            => /\ FailedAt(i)
               /\ InRetryList(i)

\* the record decodes to an order with order_id and customer_id present
ValidOrder(rec) ==
    /\ rec.kin = "ok"
    /\ rec.body = "obj"
    /\ rec.p.order_id # ""
    /\ rec.p.customer_id # ""

\* a per-type handler was called for the i-th record
TypeHandlerCalledFor(i) ==
    \E j \in DOMAIN calls :
        calls[j].seq = i /\ calls[j].stub \in OrderTypes \cup PaymentTypes

Decoded(i) == event[i].kin = "ok" /\ event[i].body = "obj"

\* the entry of failed_records made for the i-th record, which failed
FailureOf(i) == failed_records[FailuresUpTo(i)]

\* the i-th record failed with a validation error, recorded under its own
\* sequence number
FailedValidation(i) ==
    /\ FailedAt(i)
    /\ Len(failed_records) = FailuresUpTo(Len(event))
    /\ FailureOf(i).error = "Validation error"
    /\ FailureOf(i).sequenceNumber = event[i].seq

\* the payment of the i-th record fails the validation of the claim
InvalidPayment(i) ==
    /\ Decoded(i)
    /\ \/ event[i].p.payment_id = ""
       \/ event[i].p.order_id = ""
       \/ event[i].p.amount <= 0

\* C17: in the Payments Consumer a record whose payment_id is absent, whose
\* order_id is absent or whose amount is <= 0 (absent counts as 0) fails as
\* a validation error and appears in the retry list; validation comes
\* before the idempotency check, so the record fails even when its
\* (payment_id, type) is in the processed-set, and no handler is called
C17_PaymentValidation ==
    (consumer = "payments" /\ Responded) =>
        \A i \in DOMAIN event :
            InvalidPayment(i)
            => /\ FailedValidation(i)
               /\ InRetryList(i)
               /\ ~CalledFor(i)

\* a batch of one record with amount 0 whose pair was processed before
C17_Witness ==
    /\ consumer = "payments"
    /\ Responded
    /\ Len(event) = 1
    /\ InvalidPayment(1)
    /\ event[1].p.amount = 0
    /\ generate_idempotency_key(event[1].p.payment_id, event[1].p.type)
           \in processed_payments
    /\ InRetryList(1)

\* the order of the i-th record lacks an identifier
InvalidOrder(i) ==
    /\ Decoded(i)
    /\ event[i].p.order_id = "" \/ event[i].p.customer_id = ""

\* C18: in the Orders Consumer a record whose order_id or customer_id is
\* absent (or empty) fails with a validation error and appears in the retry
\* list; no type handler and no high-value alert is invoked for it
C18_OrderValidation ==
    (consumer = "orders" /\ Responded) =>
        \A i \in DOMAIN event :
            InvalidOrder(i)
            => /\ FailedValidation(i)
               /\ InRetryList(i)
               /\ ~CalledFor(i)

\* alerts are enabled and a "created" order of 1001 without customer_id
\* failed
C18_Witness ==
    /\ consumer = "orders"
    /\ Responded
    /\ order_alerts
    /\ \E i \in DOMAIN event :
           /\ InvalidOrder(i)
           /\ event[i].p.order_id # ""
           /\ event[i].p.type = "created"
           /\ event[i].p.total_amount > 1000
           /\ InRetryList(i)

\* the high-value alert was emitted for the i-th record
AlertedFor(i) ==
    \E j \in DOMAIN calls : calls[j].seq = i /\ calls[j].stub = "high_value_alert"

\* ENABLE_ORDER_ALERTS is set and reads "true" in some mix of cases
AlertsEnabled ==
    /\ "ENABLE_ORDER_ALERTS" \in DOMAIN environ
    /\ LET text == environ["ENABLE_ORDER_ALERTS"]
       IN  /\ Len(text) = 4
           /\ text[1] \in {"t", "T"}
           /\ text[2] \in {"r", "R"}
           /\ text[3] \in {"u", "U"}
           /\ text[4] \in {"e", "E"}

\* C19: for a valid order the high-value alert is emitted if and only if
\* ENABLE_ORDER_ALERTS is "true" (case-insensitive) and total_amount is
\* strictly greater than 1000; exactly 1000, an absent total_amount or a
\* disabled flag emit no alert; the type of the record plays no part
C19_AlertIffEnabledAndHigh ==
    (consumer = "orders" /\ Responded) =>
        \A i \in DOMAIN event :
            ValidOrder(event[i])
            => (AlertedFor(i) <=> (AlertsEnabled /\ event[i].p.total_amount > 1000))

\* ENABLE_ORDER_ALERTS is not in lower case and an order of unknown type
\* and 1001 was alerted, next to an order of 1000 that was not
C19_Witness ==
    /\ consumer = "orders"
    /\ Responded
    /\ "ENABLE_ORDER_ALERTS" \in DOMAIN environ
    /\ environ["ENABLE_ORDER_ALERTS"] # <<"t", "r", "u", "e">>
    /\ \E i, j \in DOMAIN event :
           /\ ValidOrder(event[i])
           /\ event[i].p.type \notin OrderTypes
           /\ event[i].p.total_amount = 1001
           /\ AlertedFor(i)
           /\ ValidOrder(event[j])
           /\ event[j].p.total_amount = 1000
           /\ ~AlertedFor(j)

\* a and b are the same character or the two cases of one letter
SameLetter(a, b) ==
    \/ a = b
    \/ \E k \in DOMAIN UpperCase : {a, b} = {UpperCase[k], LowerCase[k]}

\* the text holds the name somewhere, in whatever case
Mentions(text, name) ==
    \E k \in 0..(Len(text) - Len(name)) :
        \A j \in 1..Len(name) : SameLetter(text[k + j], name[j])

\* the bucket that the source ARN of the i-th record stands for
BucketOf(i) ==
    IF Mentions(event[i].arn, UserActivityName) THEN "user_activity"
    ELSE IF Mentions(event[i].arn, PaymentsName) THEN "payments"
    ELSE "unknown"

\* the i-th record was decoded and is a user-activity record
ActivityAt(i) == SucceededAt(i) /\ BucketOf(i) = "user_activity"

\* the i-th record was decoded and is a payment record
PaymentAt(i) == SucceededAt(i) /\ BucketOf(i) = "payments"

\* the value of field f of the i-th record's payload, if it has one
HasValue(i, f) ==
    /\ event[i].body = "obj"
    /\ f \in DOMAIN event[i].p
    /\ event[i].p[f] # ""

UserIds == {event[i].p.user_id : i \in {j \in DOMAIN event :
                ActivityAt(j) /\ HasValue(j, "user_id")}}

CustomerIds == {event[i].p.customer_id : i \in {j \in DOMAIN event :
                    PaymentAt(j) /\ HasValue(j, "customer_id")}}

\* the calls of the correlation pass in this invocation
Correlations ==
    {j \in DOMAIN calls : calls[j].stub = "_correlate_activity_and_payments"}

\* C20: the analytics aggregator invokes the correlation pass for a batch if
\* and only if the batch yielded at least one user-activity record and at
\* least one payment record; the count of correlated identities it reports
\* is the size of the intersection of the distinct user_id values of the
\* activity records and the distinct customer_id values of the payment
\* records
C20_Correlation ==
    (consumer = "analytics_aggregator" /\ Responded) =>
        /\ Correlations # {}
               <=> /\ \E i \in DOMAIN event : ActivityAt(i)
                   /\ \E i \in DOMAIN event : PaymentAt(i)
        /\ \A j \in Correlations :
               /\ "correlated" \in DOMAIN calls[j]
               /\ calls[j].correlated = Cardinality(UserIds \cap CustomerIds)

\* the i-th record has an envelope with a sequence number and data that
\* decodes to JSON
DecodedJson(i) == event[i].kin = "ok" /\ event[i].body \in {"obj", "notobj"}

\* how often bucket b holds the i-th record
TimesIn(b, i) ==
    Cardinality({j \in DOMAIN buckets[b] : buckets[b][j] = SeqOf(event[i])})

\* the i-th record was given to an aggregation pass
PassedOn(i) ==
    \E j \in DOMAIN calls :
        \E k \in DOMAIN calls[j].passed : calls[j].passed[k] = SeqOf(event[i])

\* C21: in the analytics aggregator each successfully decoded record is in
\* exactly one of the three buckets, the one its eventSourceARN stands for by
\* case-insensitive substring match (user_activity, else payments, else
\* unknown); a record of the unknown bucket is counted as successful and is
\* passed to no aggregation pass; in the summary userActivityRecords +
\* paymentRecords + unknownRecords = successfulRecords
C21_Routing ==
    (consumer = "analytics_aggregator" /\ Responded) =>
        /\ \A i \in DOMAIN event :
               DecodedJson(i) =>
                   /\ \A b \in DOMAIN buckets :
                          TimesIn(b, i) = IF b = BucketOf(i) THEN 1 ELSE 0
                   /\ BucketOf(i) = "unknown" =>
                          SucceededAt(i) /\ ~PassedOn(i)
        /\ response.shape = "summary" =>
               response.breakdown.userActivityRecords
                   + response.breakdown.paymentRecords
                   + response.breakdown.unknownRecords
                   = response.successfulRecords

\* a batch of three records was summarised: one from "USER_ACTIVITY" in the
\* user-activity bucket, one from "x/Payments2" in the payments bucket and
\* one from "orders" in the unknown bucket, and both passes were called
C21_Witness ==
    /\ consumer = "analytics_aggregator"
    /\ Responded
    /\ response.shape = "summary"
    /\ response.breakdown =
           [userActivityRecords |-> 1, paymentRecords |-> 1, unknownRecords |-> 1]
    /\ \E i, j, k \in DOMAIN event :
           /\ event[i].arn # Lower(event[i].arn)
           /\ event[j].arn # Lower(event[j].arn)
           /\ buckets.user_activity = <<i>>
           /\ buckets.payments = <<j>>
           /\ buckets.unknown = <<k>>
           /\ Len(event[k].arn) > 0
    /\ Len(calls) = 3

\* =====================================================================
\* Part 3: the infra generators, kinesis-infra/generate.py (given the project
\* directory) and kinesis-starter-infra/generate.py (fixed layout)
\* =====================================================================

Tools == {"kinesis-infra", "kinesis-starter-infra"}

\* A YAML mapping of streams or consumers is the sequence of its entries
\* [name, cfg] in source order; a cfg is a function from the keys it has.
\* A path is the sequence of its components.

\* mapping.keys()
Keys(m) == [i \in DOMAIN m |-> m[i].name]

\* name in mapping
Has(m, name) == \E i \in DOMAIN m : m[i].name = name

\* ---- text helpers

UpperChar(c) ==
    IF \E i \in DOMAIN LowerCase : LowerCase[i] = c
    THEN UpperCase[CHOOSE i \in DOMAIN LowerCase : LowerCase[i] = c]
    ELSE c

\* str.upper()
Upper(text) == [i \in DOMAIN text |-> UpperChar(text[i])]

\* str(b) of a bool
StrBool(b) == IF b THEN <<"T", "r", "u", "e">> ELSE <<"F", "a", "l", "s", "e">>

\* ---- paths

\* the directory the tool is run in, and the directory of kinesis-infra's
\* generate.py
Cwd == <<"home", "proj">>
PlatformPath == <<"opt", "kinesis-infra">>

\* Path.name
PathName(path) ==
    IF path.parts = << >> THEN "" ELSE path.parts[Len(path.parts)]

\* Path.resolve()
Resolve(path) == IF path.abs THEN path.parts ELSE Cwd \o path.parts

\* the length of the common prefix of two absolute paths
RECURSIVE CommonLen(_, _)
CommonLen(a, b) ==
    IF a = << >> \/ b = << >> \/ Head(a) # Head(b) THEN 0
    ELSE 1 + CommonLen(Tail(a), Tail(b))

\* os.path.relpath(to_abs, from_abs)
compute_relative_path(from_path, to_path) ==
    LET from_abs == Resolve(from_path)
        to_abs   == Resolve(to_path)
        k        == CommonLen(from_abs, to_abs)
        rel      == [i \in 1..(Len(from_abs) - k) |-> ".."]
                        \o SubSeq(to_abs, k + 1, Len(to_abs))
    IN  IF rel = << >> THEN <<".">> ELSE rel

\* path / name / ...
Join(path, names) == [abs |-> path.abs, parts |-> path.parts \o names]

\* ---- the blocks of the generated text

\* the characters of an environment name
Chars(env) ==
    CASE env = "dev" -> <<"d", "e", "v">>
      [] env = "staging" -> <<"s", "t", "a", "g", "i", "n", "g">>
      [] env = "prod" -> <<"p", "r", "o", "d">>

\* generate_header where only kinesis-infra reads the region of the config
generate_header_region(t, config, env, project_name) ==
    [block |-> "header",
     title |-> Upper(Chars(env)),
     project |-> IF t = "kinesis-infra" THEN project_name ELSE "kinesis-event-ingestion",
     region |-> IF t = "kinesis-infra" THEN Get(config, "region", "us-east-1")
                ELSE "us-east-1",
     environment |-> env]

\* generate_header: the values it renders.  kinesis-starter-infra names the
\* project "kinesis-event-ingestion".
generate_header(t, config, env, project_name) ==
    [block |-> "header",
     title |-> Upper(Chars(env)),
     project |-> IF t = "kinesis-infra" THEN project_name ELSE "kinesis-event-ingestion",
     region |-> Get(config, "region", "us-east-1"),
     environment |-> env]

\* generate_stream_module with a retention default that follows the shards
generate_stream_module_scaled(stream_name, stream_cfg, consumer_cfg, env, platform_modules_relpath, project_root_relpath) ==
    LET shards       == Get(stream_cfg, "shards", 1)
        retention    == Get(stream_cfg, "retention_hours", 24 * shards)
        enhanced     == Get(stream_cfg, "enhanced_monitoring", FALSE)
        source       == Get(consumer_cfg, "source", "lambda/" \o stream_name)
        memory       == Get(consumer_cfg, "memory", 256)
        timeout      == Get(consumer_cfg, "timeout", 30)
        batch_size   == Get(consumer_cfg, "batch_size", 100)
        batch_window == Get(consumer_cfg, "batch_window", 5)
        env_vars     == Get(consumer_cfg, "env", << >>)
    IN  [block |-> "module",
         name |-> stream_name \o "_events",
         source |-> platform_modules_relpath \o <<"kinesis_event_flow">>,
         event_type |-> stream_name,
         shard_count |-> shards,
         retention_period |-> retention,
         enable_enhanced_monitoring |-> Lower(StrBool(enhanced)),
         lambda_source_path |->
             <<"${path.module}">> \o project_root_relpath \o <<source>>,
         lambda_memory_size |-> memory,
         lambda_timeout |-> timeout,
         batch_size |-> batch_size,
         batch_window_seconds |-> batch_window,
         lambda_environment_variables |-> env_vars]

\* the lambda_environment_variables section is absent when env_vars is empty
generate_stream_module(stream_name, stream_cfg, consumer_cfg, env, platform_modules_relpath, project_root_relpath) ==
    LET shards       == Get(stream_cfg, "shards", 1)
        retention    == Get(stream_cfg, "retention_hours", 24)
        enhanced     == Get(stream_cfg, "enhanced_monitoring", FALSE)
        source       == Get(consumer_cfg, "source", "lambda/" \o stream_name)
        memory       == Get(consumer_cfg, "memory", 256)
        timeout      == Get(consumer_cfg, "timeout", 30)
        batch_size   == Get(consumer_cfg, "batch_size", 100)
        batch_window == Get(consumer_cfg, "batch_window", 5)
        env_vars     == Get(consumer_cfg, "env", << >>)
    IN  [block |-> "module",
         name |-> stream_name \o "_events",
         source |-> platform_modules_relpath \o <<"kinesis_event_flow">>,
         event_type |-> stream_name,
         shard_count |-> shards,
         retention_period |-> retention,
         enable_enhanced_monitoring |-> Lower(StrBool(enhanced)),
         lambda_source_path |->
             <<"${path.module}">> \o project_root_relpath \o <<source>>,
         lambda_memory_size |-> memory,
         lambda_timeout |-> timeout,
         batch_size |-> batch_size,
         batch_window_seconds |-> batch_window,
         lambda_environment_variables |-> env_vars]

\* cfg.get('streams', [cfg.get('stream')])
StreamList(cfg) ==
    IF "streams" \in DOMAIN cfg THEN cfg.streams
    ELSE <<Get(cfg, "stream", "")>>

\* ', '.join(stream_list) raises TypeError for a list that holds None
JoinExc(stream_list) ==
    IF \E i \in DOMAIN stream_list : stream_list[i] = ""
    THEN "TypeError" ELSE ""

\* module.{s}_events.{attr}: a reference to an output of the module block
\* of stream s
ModuleRef(s, attr) == [module |-> Str(s) \o "_events", attr |-> attr]

\* generate_additional_consumer with every mapping's failures routed to the
\* dead-letter queue of the first stream
generate_additional_consumer_one_dlq(name, cfg, env, project_root_relpath) ==
    LET source       == Get(cfg, "source", "lambda/" \o name)
        memory       == Get(cfg, "memory", 256)
        timeout      == Get(cfg, "timeout", 30)
        batch_size   == Get(cfg, "batch_size", 100)
        batch_window == Get(cfg, "batch_window", 5)
        env_vars     == Get(cfg, "env", << >>)
        stream_list  == StreamList(cfg)
    IN  [block |-> "consumer",
         name |-> name,
         streams |-> stream_list,
         source_dir |-> <<"${path.module}">> \o project_root_relpath \o <<source>>,
         log_group |-> "/aws/lambda/" \o env \o "-" \o name,
         memory_size |-> memory,
         timeout |-> timeout,
         variables |-> <<[k |-> "LOG_LEVEL", v |-> "INFO"],
                         [k |-> "ENVIRONMENT", v |-> "var.environment"]>>
                           \o env_vars,
         policy |->
             [stream_arns |-> [i \in DOMAIN stream_list |->
                                  ModuleRef(stream_list[i], "stream_arn")],
              kms_arns |-> [i \in DOMAIN stream_list |->
                                  ModuleRef(stream_list[i], "kms_key_arn")],
              dlq_arns |-> [i \in DOMAIN stream_list |->
                                  ModuleRef(stream_list[i], "dlq_arn")]],
         policy_attachment |-> name \o "_kinesis",
         event_sources |->
             [i \in DOMAIN stream_list |->
                 [name |-> name \o "_" \o Str(stream_list[i]),
                  stream |-> stream_list[i],
                  event_source_arn |-> ModuleRef(stream_list[i], "stream_arn"),
                  batch_size |-> batch_size,
                  batch_window |-> batch_window,
                  destination_arn |-> ModuleRef(stream_list[1], "dlq_arn"),
                  depends_on |-> name \o "_kinesis"]]]

\* the standalone resource set of a consumer: the values it renders
generate_additional_consumer(name, cfg, env, project_root_relpath) ==
    LET source       == Get(cfg, "source", "lambda/" \o name)
        memory       == Get(cfg, "memory", 256)
        timeout      == Get(cfg, "timeout", 30)
        batch_size   == Get(cfg, "batch_size", 100)
        batch_window == Get(cfg, "batch_window", 5)
        env_vars     == Get(cfg, "env", << >>)
        stream_list  == StreamList(cfg)
    IN  [block |-> "consumer",
         name |-> name,
         streams |-> stream_list,
         source_dir |-> <<"${path.module}">> \o project_root_relpath \o <<source>>,
         log_group |-> "/aws/lambda/" \o env \o "-" \o name,
         memory_size |-> memory,
         timeout |-> timeout,
         variables |-> <<[k |-> "LOG_LEVEL", v |-> "INFO"],
                         [k |-> "ENVIRONMENT", v |-> "var.environment"]>>
                           \o env_vars,
         policy |->
             [stream_arns |-> [i \in DOMAIN stream_list |->
                                  ModuleRef(stream_list[i], "stream_arn")],
              kms_arns |-> [i \in DOMAIN stream_list |->
                                  ModuleRef(stream_list[i], "kms_key_arn")],
              dlq_arns |-> [i \in DOMAIN stream_list |->
                                  ModuleRef(stream_list[i], "dlq_arn")]],
         policy_attachment |-> name \o "_kinesis",
         event_sources |->
             [i \in DOMAIN stream_list |->
                 [name |-> name \o "_" \o Str(stream_list[i]),
                  stream |-> stream_list[i],
                  event_source_arn |-> ModuleRef(stream_list[i], "stream_arn"),
                  batch_size |-> batch_size,
                  batch_window |-> batch_window,
                  destination_arn |-> ModuleRef(stream_list[i], "dlq_arn"),
                  depends_on |-> name \o "_kinesis"]]]

generate_api_gateway(config, streams, env, platform_modules_relpath) ==
    LET gw == Get(config, "api_gateway", << >>)
    IN  [block |-> "api_gateway",
         source |-> platform_modules_relpath \o <<"api_gateway">>,
         name |-> Get(gw, "name", "events-ingestion"),
         event_streams |-> Keys(streams),
         stage_name |-> Get(gw, "stage", "v1"),
         throttling_rate_limit |-> Get(gw, "throttling_rate_limit", 10000),
         throttling_burst_limit |-> Get(gw, "throttling_burst_limit", 5000)]

generate_outputs(streams, additional_consumers) ==
    [block |-> "outputs",
     streams |-> Keys(streams),
     consumers |-> additional_consumers]

\* ---- the classification of the consumers

\* primary: stream name -> the consumer entry; additional: the entries in
\* the order they were added
Classified0 == [primary |-> << >>, additional |-> << >>, raised |-> ""]

\* classify without the comparison of the consumer's name
classify_any_name(streams, acc, entry) ==
    LET stream_list == StreamList(entry.cfg)
        stream      == stream_list[1]
        added       == [acc EXCEPT !.additional = Append(@, entry)]
    IN  IF acc.raised # "" THEN acc
        ELSE IF Len(stream_list) > 1 THEN added
        ELSE IF Len(stream_list) = 0
        THEN [acc EXCEPT !.raised = "IndexError"]
        ELSE IF Has(streams, stream)
        THEN IF stream \notin DOMAIN acc.primary
             THEN [acc EXCEPT !.primary = Put(@, stream, entry)]
             ELSE added
        ELSE added

\* one iteration of the loop of identify_primary_consumers
classify(streams, acc, entry) ==
    LET stream_list == StreamList(entry.cfg)
        stream      == stream_list[1]
        expected_primary_name == Str(stream) \o "_processor"
        added       == [acc EXCEPT !.additional = Append(@, entry)]
    IN  IF acc.raised # "" THEN acc
        ELSE IF Len(stream_list) > 1 THEN added
        ELSE IF Len(stream_list) = 0
        THEN [acc EXCEPT !.raised = "IndexError"]
        ELSE IF entry.name = expected_primary_name /\ Has(streams, stream)
        THEN IF stream \notin DOMAIN acc.primary
             THEN [acc EXCEPT !.primary = Put(@, stream, entry)]
             ELSE added
        ELSE added

RECURSIVE ClassifyFrom(_, _, _, _)
ClassifyFrom(streams, consumers, acc, i) ==
    IF i > Len(consumers) THEN acc
    ELSE ClassifyFrom(streams, consumers,
                      classify(streams, acc, consumers[i]), i + 1)

identify_primary_consumers(streams, consumers) ==
    ClassifyFrom(streams, consumers, Classified0, 1)

\* ---- generate

\* an empty YAML file loads as None
NullDoc == [null |-> TRUE]

\* a default consumer with half the memory
DefaultConsumer_small(stream_name) ==
    [source |-> "lambda/" \o stream_name, memory |-> 128, timeout |-> 30, batch_size |-> 100]

\* primary_consumers.get(stream_name, {...})
DefaultConsumer(stream_name) ==
    [source |-> "lambda/" \o stream_name, memory |-> 256, timeout |-> 30,
     batch_size |-> 100]

\* what generate returns or raises, with the classification it made
generate(t, config, env, platform_path, project_path) ==
    IF "null" \in DOMAIN config
    THEN [raised |-> "AttributeError", tf |-> << >>,
          primary |-> << >>, additional |-> << >>]
    ELSE
    LET streams       == Get(config, "streams", << >>)
        consumers     == Get(config, "consumers", << >>)
        project_name  == Get(config, "project_name", PathName(project_path))
        generated_dir == Join(project_path, <<"__generated__", env>>)
        platform_modules == Join(platform_path, <<"modules">>)
        platform_modules_relpath ==
            IF t = "kinesis-infra"
            THEN compute_relative_path(generated_dir, platform_modules)
            ELSE <<"..", "..", "modules">>
        project_root_relpath ==
            IF t = "kinesis-infra"
            THEN compute_relative_path(generated_dir, project_path)
            ELSE <<"..", "..">>
        cls == identify_primary_consumers(streams, consumers)
        modules ==
            [i \in DOMAIN streams |->
                generate_stream_module(
                    streams[i].name, streams[i].cfg,
                    IF streams[i].name \in DOMAIN cls.primary
                    THEN cls.primary[streams[i].name].cfg
                    ELSE DefaultConsumer(streams[i].name),
                    env, platform_modules_relpath, project_root_relpath)]
        standalone ==
            [i \in DOMAIN cls.additional |->
                generate_additional_consumer(
                    cls.additional[i].name, cls.additional[i].cfg, env,
                    project_root_relpath)]
        exc == IF cls.raised # "" THEN cls.raised
               ELSE IF \E i \in DOMAIN cls.additional :
                           JoinExc(StreamList(cls.additional[i].cfg)) # ""
               THEN "TypeError"
               ELSE ""
    IN  IF exc # ""
        THEN [raised |-> exc, tf |-> << >>,
              primary |-> cls.primary, additional |-> cls.additional]
        ELSE [raised |-> "",
              tf |-> <<generate_header(t, config, env, project_name)>>
                         \o modules \o standalone
                         \o <<generate_api_gateway(config, streams, env,
                                                   platform_modules_relpath),
                              generate_outputs(streams, Keys(cls.additional))>>,
              primary |-> cls.primary, additional |-> cls.additional]

\* ---- the config documents the tools are run on

MaxRuns == 2

Entry(name, cfg) == [name |-> name, cfg |-> cfg]

\* f restricted to the keys K
Only(f, K) == [k \in K |-> f[k]]

StreamCfgs ==
    LET all == [shards |-> 2, retention_hours |-> 48,
                enhanced_monitoring |-> TRUE]
    IN  {Only(all, K) : K \in SUBSET DOMAIN all}

StreamMaps ==
    {<<Entry("a", << >>)>>,
     <<Entry("b", << >>), Entry("a", << >>)>>}

\* the settings a consumer may carry
Custom ==
    [source |-> "src/x", memory |-> 512, timeout |-> 60, batch_size |-> 10,
     batch_window |-> 1, env |-> <<[k |-> "K", v |-> "v"]>>]

ConsumerEntries ==
    {Entry("a_processor", [stream |-> "a"]),
     Entry("a_processor", [stream |-> "a"] @@ Custom),
     Entry("a_processor", [streams |-> <<"a">>]),
     Entry("a_processor", [streams |-> <<"a", "b">>]),
     Entry("a_processor", [stream |-> "b"]),
     Entry("b_processor", [stream |-> "b"] @@ Only(Custom, {"memory"})),
     Entry("c_processor", [stream |-> "c"]),
     Entry("w", [stream |-> "a"]),
     Entry("w", [streams |-> <<"b", "a">>] @@ Custom)}

\* mappings of at most two consumers; the names of a mapping are distinct
ConsumerMaps ==
    {<< >>} \cup {<<e>> : e \in ConsumerEntries}
    \cup {m \in {<<e, f>> : e \in ConsumerEntries, f \in ConsumerEntries} :
              m[1].name # m[2].name}

Docs ==
    {[streams |-> <<Entry("a", c)>>, consumers |-> << >>] : c \in StreamCfgs}
    \cup {[streams |-> <<Entry("a", c), Entry("b", << >>)>>,
           consumers |-> <<Entry("a_processor", [stream |-> "a"])>>] :
              c \in StreamCfgs}
    \cup {[streams |-> sm, consumers |-> cs] :
              sm \in StreamMaps, cs \in ConsumerMaps}
    \cup {NullDoc,
          [consumers |-> <<Entry("w", [stream |-> "a"])>>],
          [streams |-> <<Entry("a", << >>)>>],
          [project_name |-> "shop", region |-> "eu-west-1",
           streams |-> <<Entry("a", << >>)>>,
           consumers |-> <<Entry("a_processor", [stream |-> "a"])>>,
           api_gateway |-> [name |-> "gw", stage |-> "v2"]],
          [streams |-> <<Entry("a", << >>)>>,
           consumers |-> <<Entry("w", [memory |-> 512])>>],
          [streams |-> <<Entry("a", << >>)>>,
           consumers |-> <<Entry("a_processor", [streams |-> << >>])>>]}

\* ---- the command line

\* parser.add_argument('env', choices=['dev', 'staging', 'prod'])
Envs == {"dev", "staging", "prod"}

\* --project-dir: Path.cwd() by default, or "."
ProjectDirs == {[abs |-> TRUE, parts |-> Cwd], [abs |-> FALSE, parts |-> << >>]}

\* an old main.tf
Stale == <<[block |-> "stale"]>>

NotCalled ==
    [raised |-> "not called", tf |-> << >>,
     primary |-> << >>, additional |-> << >>]

InitGenerator ==
    /\ tool \in Tools
    /\ config_file \in {[exists |-> FALSE]}
                           \cup {[exists |-> TRUE, doc |-> d] : d \in Docs}
    /\ \/ generated = "absent" /\ main_tf = << >>
       \/ generated = "file" /\ main_tf = << >>
       \/ generated = "dir" /\ main_tf = [e \in {"dev"} |-> Stale]
    /\ runs = << >>
    /\ AgentIdle
    /\ timestamps = << >>
    /\ grants = << >>
    /\ grants_ts = << >>
    /\ exp_ts = << >>
    /\ subtracts_ts = << >>
    /\ subtractions = << >>
    /\ hashes \in {CHOOSE hs \in Layouts : TRUE}
    /\ call = [op |-> "__init__", arg |-> 0, ret |-> None]
    /\ short_before = 0
    /\ plan = {}
    /\ earlier = << >>
    /\ consumer = "none"
    /\ phase = "idle"
    /\ event = << >>
    /\ response = NoResponse
    /\ outcomes = << >>
    /\ failed_records = << >>
    /\ calls = << >>
    /\ buckets = NoBuckets
    /\ environ = << >>
    /\ order_alerts = FALSE
    /\ processed_payments = {}
    /\ handled = << >>
    /\ failed_before = {}

\* Main, opening main.tf for appending
Main_appending(args) ==
    /\ Len(runs) < MaxRuns
    /\ LET parsed   == args.env \in Envs
           found    == parsed /\ config_file.exists
           result   == IF found
                       THEN generate(tool, config_file.doc, args.env,
                                     [abs |-> TRUE, parts |-> PlatformPath],
                                     args.project_dir)
                       ELSE NotCalled
           produced == found /\ result.raised = ""
           writes   == produced /\ ~args.dry_run /\ generated # "file"
           content  == IF writes
                       THEN Get(main_tf, args.env, << >>) \o result.tf
                       ELSE << >>
           exit_code == IF ~parsed THEN 2
                        ELSE IF ~found THEN 1
                        ELSE IF ~produced THEN 1
                        ELSE IF ~args.dry_run /\ ~writes THEN 1
                        ELSE 0
       IN  /\ runs' = Append(runs,
                  [env |-> args.env, dry_run |-> args.dry_run,
                   project_dir |-> args.project_dir,
                   exit_code |-> exit_code,
                   stdout |-> IF produced /\ args.dry_run
                              THEN result.tf ELSE << >>,
                   result |-> result,
                   wrote |-> writes,
                   written |-> content])
           /\ IF writes
              THEN /\ generated' = "dir"
                   /\ main_tf' = Put(main_tf, args.env, content)
              ELSE UNCHANGED <<generated, main_tf>>
    /\ UNCHANGED <<tool, config_file>>

\* Main, writing main.tf whether or not generate returned
Main_unguarded(args) ==
    /\ Len(runs) < MaxRuns
    /\ LET parsed   == args.env \in Envs
           found    == parsed /\ config_file.exists
           result   == IF found
                       THEN generate(tool, config_file.doc, args.env,
                                     [abs |-> TRUE, parts |-> PlatformPath],
                                     args.project_dir)
                       ELSE NotCalled
           produced == found /\ result.raised = ""
           writes   == found /\ ~args.dry_run /\ generated # "file"
           \* open(output_path, 'w') replaces the old content
           content  == IF writes THEN result.tf ELSE << >>
           exit_code == IF ~parsed THEN 2
                        ELSE IF ~found THEN 1
                        ELSE IF ~produced THEN 1
                        ELSE IF ~args.dry_run /\ ~writes THEN 1
                        ELSE 0
       IN  /\ runs' = Append(runs,
                  [env |-> args.env, dry_run |-> args.dry_run,
                   project_dir |-> args.project_dir,
                   exit_code |-> exit_code,
                   stdout |-> IF produced /\ args.dry_run
                              THEN result.tf ELSE << >>,
                   result |-> result,
                   wrote |-> writes,
                   written |-> content])
           /\ IF writes
              THEN /\ generated' = "dir"
                   /\ main_tf' = Put(main_tf, args.env, content)
              ELSE UNCHANGED <<generated, main_tf>>
    /\ UNCHANGED <<tool, config_file>>

\* Main, creating the output directory before it looks at --dry-run
Main_mkdir_first(args) ==
    /\ Len(runs) < MaxRuns
    /\ LET parsed   == args.env \in Envs
           found    == parsed /\ config_file.exists
           result   == IF found
                       THEN generate(tool, config_file.doc, args.env,
                                     [abs |-> TRUE, parts |-> PlatformPath],
                                     args.project_dir)
                       ELSE NotCalled
           produced == found /\ result.raised = ""
           writes   == produced /\ ~args.dry_run /\ generated # "file"
           \* open(output_path, 'w') replaces the old content
           content  == IF writes THEN result.tf ELSE << >>
           exit_code == IF ~parsed THEN 2
                        ELSE IF ~found THEN 1
                        ELSE IF ~produced THEN 1
                        ELSE IF ~args.dry_run /\ ~writes THEN 1
                        ELSE 0
       IN  /\ runs' = Append(runs,
                  [env |-> args.env, dry_run |-> args.dry_run,
                   project_dir |-> args.project_dir,
                   exit_code |-> exit_code,
                   stdout |-> IF produced /\ args.dry_run
                              THEN result.tf ELSE << >>,
                   result |-> result,
                   wrote |-> writes,
                   written |-> content])
           /\ IF writes
              THEN /\ generated' = "dir"
                   /\ main_tf' = Put(main_tf, args.env, content)
              ELSE /\ generated' = IF produced /\ generated = "absent"
                                  THEN "dir" ELSE generated
                   /\ UNCHANGED main_tf
    /\ UNCHANGED <<tool, config_file>>

\* one run of main() with the parsed arguments: parse_args exits with code 2
\* on an env outside the choices; a missing config file and any exception
\* within the try block exit with code 1; mkdir raises when __generated__
\* is a regular file
Main(args) ==
    /\ Len(runs) < MaxRuns
    /\ LET parsed   == args.env \in Envs
           found    == parsed /\ config_file.exists
           result   == IF found
                       THEN generate(tool, config_file.doc, args.env,
                                     [abs |-> TRUE, parts |-> PlatformPath],
                                     args.project_dir)
                       ELSE NotCalled
           produced == found /\ result.raised = ""
           writes   == produced /\ ~args.dry_run /\ generated # "file"
           \* open(output_path, 'w') replaces the old content
           content  == IF writes THEN result.tf ELSE << >>
           exit_code == IF ~parsed THEN 2
                        ELSE IF ~found THEN 1
                        ELSE IF ~produced THEN 1
                        ELSE IF ~args.dry_run /\ ~writes THEN 1
                        ELSE 0
       IN  /\ runs' = Append(runs,
                  [env |-> args.env, dry_run |-> args.dry_run,
                   project_dir |-> args.project_dir,
                   exit_code |-> exit_code,
                   stdout |-> IF produced /\ args.dry_run
                              THEN result.tf ELSE << >>,
                   result |-> result,
                   wrote |-> writes,
                   written |-> content])
           /\ IF writes
              THEN /\ generated' = "dir"
                   /\ main_tf' = Put(main_tf, args.env, content)
              ELSE UNCHANGED <<generated, main_tf>>
    /\ UNCHANGED <<tool, config_file>>

\* the command lines: an environment name, with or without --dry-run and,
\* for kinesis-infra, with or without --project-dir .; or an environment
\* name outside the choices
Args(t) ==
    LET all == {[env |-> env, dry_run |-> dry_run, project_dir |-> project_dir] :
                   env \in {"dev", "prod"}, dry_run \in BOOLEAN,
                   project_dir \in IF t = "kinesis-infra" THEN ProjectDirs
                                   ELSE {[abs |-> TRUE, parts |-> Cwd]}}
    IN  {a \in all : a.dry_run => a.project_dir.abs}
            \cup {[env |-> "test", dry_run |-> FALSE,
                    project_dir |-> [abs |-> TRUE, parts |-> Cwd]]}

\* kinesis-infra/generate.py main()
main_kinesis_infra ==
    /\ tool = "kinesis-infra"
    /\ \E args \in Args(tool) : Main(args)

\* kinesis-starter-infra/generate.py main(): the project is the directory
\* the tool is run in
main_kinesis_starter_infra ==
    /\ tool = "kinesis-starter-infra"
    /\ \E args \in Args(tool) : Main(args)

NextGenerator ==
    \/ main_kinesis_infra
           /\ UNCHANGED <<ledgerVars, clientVars, consumerVars, agentVars>>
    \/ main_kinesis_starter_infra
           /\ UNCHANGED <<ledgerVars, clientVars, consumerVars, agentVars>>

SpecGenerator == InitGenerator /\ [][NextGenerator]_vars

\* =====================================================================
\* The infra generators: properties
\* =====================================================================

ConfStreams == Get(config_file.doc, "streams", << >>)
ConfConsumers == Get(config_file.doc, "consumers", << >>)

\* run r called generate and it returned a text
Produced(r) == runs[r].result.raised = ""

\* consumer entry c is the primary consumer of stream s in run r
PrimaryFor(r, c, s) ==
    /\ s \in DOMAIN runs[r].result.primary
    /\ runs[r].result.primary[s] = c

IsPrimary(r, c) == \E i \in DOMAIN ConfStreams : PrimaryFor(r, c, ConfStreams[i].name)

IsAdditional(r, c) ==
    \E i \in DOMAIN runs[r].result.additional : runs[r].result.additional[i] = c

\* what a consumer entry declares: the list under streams, or the one
\* stream under stream
Declared(c) ==
    IF "streams" \in DOMAIN c.cfg THEN c.cfg.streams
    ELSE IF "stream" \in DOMAIN c.cfg THEN <<c.cfg.stream>>
    ELSE << >>

\* the module blocks of stream s and the standalone resource sets of
\* consumer name n in a generated text
ModuleBlocks(tf, s) ==
    {i \in DOMAIN tf : tf[i].block = "module" /\ tf[i].event_type = s}

StandaloneSets(tf, n) ==
    {i \in DOMAIN tf : tf[i].block = "consumer" /\ tf[i].name = n}

\* module block b carries the settings of the consumer config cfg of stream s
SettingsAppear(b, cfg, s) ==
    /\ b.lambda_source_path[Len(b.lambda_source_path)]
           = (IF "source" \in DOMAIN cfg THEN cfg.source ELSE "lambda/" \o s)
    /\ b.lambda_memory_size = (IF "memory" \in DOMAIN cfg THEN cfg.memory ELSE 256)
    /\ b.lambda_timeout = (IF "timeout" \in DOMAIN cfg THEN cfg.timeout ELSE 30)
    /\ b.batch_size = (IF "batch_size" \in DOMAIN cfg THEN cfg.batch_size ELSE 100)
    /\ b.batch_window_seconds
           = (IF "batch_window" \in DOMAIN cfg THEN cfg.batch_window ELSE 5)
    /\ b.lambda_environment_variables
           = (IF "env" \in DOMAIN cfg THEN cfg.env ELSE << >>)

Classified(r) == runs[r].result.raised \in {"", "TypeError"}

PrimaryOfAny(r, c) ==
    \E s \in DOMAIN runs[r].result.primary : runs[r].result.primary[s] = c

\* C23: in every run that classifies, each consumer is primary or additional
\* and never both, and at most one consumer is primary per stream; in every
\* run that generates a text there is exactly one module block per
\* configured stream and none for any other stream, built from the stream's
\* primary consumer when there is one and otherwise from the default
\* consumer (source lambda/<stream>, memory 256, timeout 30, batch size 100,
\* batch window 5).
C23_OneModulePerStream ==
    \A r \in DOMAIN runs :
        /\ Classified(r) =>
              /\ \A j \in DOMAIN ConfConsumers :
                     PrimaryOfAny(r, ConfConsumers[j])
                         <=> ~IsAdditional(r, ConfConsumers[j])
              /\ \A s \in DOMAIN runs[r].result.primary :
                     Cardinality({j \in DOMAIN ConfConsumers :
                         PrimaryFor(r, ConfConsumers[j], s)}) <= 1
              /\ Len(runs[r].result.additional)
                     = Cardinality({j \in DOMAIN ConfConsumers :
                           IsAdditional(r, ConfConsumers[j])})
        /\ Produced(r) =>
              LET tf == runs[r].result.tf
              IN  /\ Cardinality({i \in DOMAIN tf : tf[i].block = "module"})
                         = Len(ConfStreams)
                  /\ \A i \in DOMAIN ConfStreams :
                       LET s == ConfStreams[i].name
                           blocks == ModuleBlocks(tf, s)
                           claimants == {j \in DOMAIN ConfConsumers :
                                            PrimaryFor(r, ConfConsumers[j], s)}
                       IN  /\ Cardinality(blocks) = 1
                           /\ \A b \in blocks :
                                IF claimants # {}
                                THEN \A j \in claimants :
                                        SettingsAppear(tf[b], ConfConsumers[j].cfg, s)
                                ELSE /\ tf[b].lambda_source_path
                                            [Len(tf[b].lambda_source_path)]
                                            = "lambda/" \o s
                                     /\ tf[b].lambda_memory_size = 256
                                     /\ tf[b].lambda_timeout = 30
                                     /\ tf[b].batch_size = 100
                                     /\ tf[b].batch_window_seconds = 5

\* a text for two streams, one with a primary consumer that has its own
\* memory setting and one with the default consumer, next to an additional
\* consumer
C23_Witness ==
    \E r \in DOMAIN runs :
        /\ Produced(r)
        /\ Len(ConfStreams) = 2
        /\ \E i, k \in DOMAIN ConfStreams, j \in DOMAIN ConfConsumers :
              /\ PrimaryFor(r, ConfConsumers[j], ConfStreams[i].name)
              /\ "memory" \in DOMAIN ConfConsumers[j].cfg
              /\ ConfStreams[k].name \notin DOMAIN runs[r].result.primary
              /\ ModuleBlocks(runs[r].result.tf, ConfStreams[k].name) # {}
        /\ runs[r].result.additional # << >>

\* the text that Terraform reads as a boolean
TfBool(b) == IF b THEN <<"t", "r", "u", "e">> ELSE <<"f", "a", "l", "s", "e">>

\* C24: in every generated text the module block of a stream has shard_count
\* 1 unless the stream config has shards, retention_period 24 unless it has
\* retention_hours, and enable_enhanced_monitoring false unless it has
\* enhanced_monitoring; a key that is present gives its own value to its
\* own attribute only.
C24_Defaults ==
    \A r \in DOMAIN runs : Produced(r) =>
        \A i \in DOMAIN ConfStreams :
            LET cfg == ConfStreams[i].cfg
                tf == runs[r].result.tf
            IN  \A b \in ModuleBlocks(tf, ConfStreams[i].name) :
                    /\ tf[b].shard_count
                           = (IF "shards" \in DOMAIN cfg THEN cfg.shards ELSE 1)
                    /\ tf[b].retention_period
                           = (IF "retention_hours" \in DOMAIN cfg
                              THEN cfg.retention_hours ELSE 24)
                    /\ tf[b].enable_enhanced_monitoring
                           = (IF "enhanced_monitoring" \in DOMAIN cfg
                              THEN TfBool(cfg.enhanced_monitoring)
                              ELSE TfBool(FALSE))

\* a text for a stream with none of the three keys and a stream with shards
\* only: 1/24/false for the first, 2/24/false for the second
C24_Witness ==
    \E r \in DOMAIN runs :
        /\ Produced(r)
        /\ \E i, k \in DOMAIN ConfStreams :
              /\ DOMAIN ConfStreams[i].cfg = {}
              /\ DOMAIN ConfStreams[k].cfg = {"shards"}
              /\ \E b \in ModuleBlocks(runs[r].result.tf, ConfStreams[i].name) :
                    /\ runs[r].result.tf[b].shard_count = 1
                    /\ runs[r].result.tf[b].retention_period = 24
                    /\ runs[r].result.tf[b].enable_enhanced_monitoring = TfBool(FALSE)
              /\ \E b \in ModuleBlocks(runs[r].result.tf, ConfStreams[k].name) :
                    /\ runs[r].result.tf[b].shard_count = 2
                    /\ runs[r].result.tf[b].retention_period = 24

\* what run r put out: the text printed by a dry run, the content of
\* main.tf after a writing run
Output(r) == IF runs[r].dry_run THEN runs[r].stdout ELSE runs[r].written

PutOut(r) == runs[r].exit_code = 0

Ran == Len(runs') = Len(runs) + 1
ThisRun == runs'[Len(runs')]

Missing == ~config_file.exists
GenerateRaised(r) == r.result.raised \notin {"", "not called"}
FilesUntouched == generated' = generated /\ main_tf' = main_tf

MaxTurns == 3

\* ---- the lines typed at the prompt, as sequences of characters

IsSpace(c) == c \in {" ", "\t"}

RECURSIVE LStrip(_)
LStrip(text) ==
    IF text # << >> /\ IsSpace(Head(text)) THEN LStrip(Tail(text)) ELSE text

RECURSIVE RStrip(_)
RStrip(text) ==
    IF text # << >> /\ IsSpace(text[Len(text)])
    THEN RStrip(SubSeq(text, 1, Len(text) - 1))
    ELSE text

\* str.strip()
Strip(text) == RStrip(LStrip(text))

Lines ==
    {<<"e", "x", "i", "t">>,
     <<"Q", "u", "i", "t">>,
     <<" ", "E", "X", "I", "T", " ">>,
     <<"q", "u", "i", "t", "\t">>,
     <<"e", "x", "i", "t", " ", "n", "o", "w">>,
     <<"e", " ", "x", "i", "t">>,
     << >>,
     <<"h", "i">>,
     <<" ", "H", "i", " ">>}

\* user_input.lower().strip() in ["exit", "quit"]
IsExit(user_input) ==
    Strip(Lower(user_input)) \in {<<"e", "x", "i", "t">>, <<"q", "u", "i", "t">>}

\* ---- construction

\* os.getenv with a default value
getenv_with_default ==
    IF GEMINI_API_KEY = "unset" /\ dotenv = "unset" THEN "set"
    ELSE IF GEMINI_API_KEY = "unset" THEN dotenv ELSE GEMINI_API_KEY

\* load_dotenv() sets a variable of the .env file unless os.environ has it;
\* os.getenv("GEMINI_API_KEY") afterwards
getenv ==
    IF GEMINI_API_KEY = "unset" THEN dotenv ELSE GEMINI_API_KEY

InitAgent ==
    /\ stage = "new"
    /\ GEMINI_API_KEY \in {"unset", "empty", "set"}
    /\ dotenv \in {"unset", "set"}
    /\ client = FALSE
    /\ chat = FALSE
    /\ inputs = << >>
    /\ sent = << >>
    /\ printed = << >>
    /\ GeneratorIdle
    /\ timestamps = << >>
    /\ grants = << >>
    /\ grants_ts = << >>
    /\ exp_ts = << >>
    /\ subtracts_ts = << >>
    /\ subtractions = << >>
    /\ hashes \in {CHOOSE hs \in Layouts : TRUE}
    /\ call = [op |-> "__init__", arg |-> 0, ret |-> None]
    /\ short_before = 0
    /\ plan = {}
    /\ earlier = << >>
    /\ consumer = "none"
    /\ phase = "idle"
    /\ event = << >>
    /\ response = NoResponse
    /\ outcomes = << >>
    /\ failed_records = << >>
    /\ calls = << >>
    /\ buckets = NoBuckets
    /\ environ = << >>
    /\ order_alerts = FALSE
    /\ processed_payments = {}
    /\ handled = << >>
    /\ failed_before = {}

\* AIAgent(name="GeminiBot") and the banner of main(): `if not api_key`
\* holds for an absent and for an empty key; genai.Client and chats.create
\* are the library's and may raise, which main() does not catch
Construct(library) ==
    /\ stage = "new"
    /\ LET api_key == getenv
       IN  IF api_key \in {"unset", "empty"}
           THEN /\ stage' = "exited"
                /\ printed' = Append(printed, "key not found")
                /\ UNCHANGED <<client, chat>>
           ELSE CASE library = "client raises" ->
                       /\ stage' = "crashed"
                       /\ UNCHANGED <<client, chat, printed>>
                  [] library = "chat raises" ->
                       /\ stage' = "crashed"
                       /\ client' = TRUE
                       /\ UNCHANGED <<chat, printed>>
                  [] library = "ok" ->
                       /\ stage' = "online"
                       /\ client' = TRUE
                       /\ chat' = TRUE
                       /\ printed' = printed \o <<"configured", "online">>
    /\ UNCHANGED <<GEMINI_API_KEY, dotenv, inputs, sent>>

AIAgent == \E library \in {"ok", "client raises", "chat raises"} : Construct(library)

\* ---- one iteration of the while loop of main()

Prompting == stage = "online" /\ Len(inputs) < MaxTurns

\* input() returns an exit word: the farewell, break
Farewell ==
    /\ Prompting
    /\ \E user_input \in Lines :
          /\ IsExit(user_input)
          /\ inputs' = Append(inputs, user_input)
    /\ printed' = Append(printed, "goodbye")
    /\ stage' = "ended"
    /\ UNCHANGED <<GEMINI_API_KEY, dotenv, client, chat, sent>>

\* Forward, sending what the exit test looked at
Forward_normalised(user_input, remote) ==
    /\ Prompting
    /\ ~IsExit(user_input)
    /\ inputs' = Append(inputs, user_input)
    /\ sent' = Append(sent, Strip(Lower(user_input)))
    /\ CASE remote = "reply" ->
              /\ printed' = Append(printed, "response")
              /\ stage' = "online"
         [] remote = "error" ->
              /\ printed' = Append(printed, "error response")
              /\ stage' = "online"
         [] remote = "interrupt" ->
              /\ printed' = Append(printed, "shutdown")
              /\ stage' = "ended"
    /\ UNCHANGED <<GEMINI_API_KEY, dotenv, client, chat>>

\* perceive_and_act: send_message returns, raises an Exception (caught,
\* the error text is the response) or is interrupted (KeyboardInterrupt is
\* not an Exception: it reaches the except clause of main)
Forward(user_input, remote) ==
    /\ Prompting
    /\ ~IsExit(user_input)
    /\ inputs' = Append(inputs, user_input)
    /\ sent' = Append(sent, user_input)
    /\ CASE remote = "reply" ->
              /\ printed' = Append(printed, "response")
              /\ stage' = "online"
         [] remote = "error" ->
              /\ printed' = Append(printed, "error response")
              /\ stage' = "online"
         [] remote = "interrupt" ->
              /\ printed' = Append(printed, "shutdown")
              /\ stage' = "ended"
    /\ UNCHANGED <<GEMINI_API_KEY, dotenv, client, chat>>

Turn ==
    \E user_input \in Lines, remote \in {"reply", "error", "interrupt"} :
        Forward(user_input, remote)

\* KeyboardInterrupt while input() waits
InterruptAtPrompt ==
    /\ Prompting
    /\ printed' = Append(printed, "shutdown")
    /\ stage' = "ended"
    /\ UNCHANGED <<GEMINI_API_KEY, dotenv, client, chat, inputs, sent>>

\* input() at the end of the input stream raises EOFError, which nothing
\* catches
EndOfInput ==
    /\ Prompting
    /\ stage' = "crashed"
    /\ UNCHANGED <<GEMINI_API_KEY, dotenv, client, chat, inputs, sent, printed>>

NextAgent ==
    \/ AIAgent /\ UNCHANGED <<ledgerVars, clientVars, consumerVars, generatorVars>>
    \/ Farewell /\ UNCHANGED <<ledgerVars, clientVars, consumerVars, generatorVars>>
    \/ Turn /\ UNCHANGED <<ledgerVars, clientVars, consumerVars, generatorVars>>
    \/ InterruptAtPrompt /\ UNCHANGED <<ledgerVars, clientVars, consumerVars, generatorVars>>
    \/ EndOfInput /\ UNCHANGED <<ledgerVars, clientVars, consumerVars, generatorVars>>

SpecAgent == InitAgent /\ [][NextAgent]_vars

\* =====================================================================
\* The model-backed agent: properties
\* =====================================================================

Blank(c) == c = " " \/ c = "\t"

\* the line is exit or quit in any mix of cases, with blanks around it
SaysExit(line) ==
    \E before \in 0..Len(line) :
        /\ before + 4 <= Len(line)
        /\ \A i \in 1..before : Blank(line[i])
        /\ \A i \in (before + 5)..Len(line) : Blank(line[i])
        /\ \E word \in {<<"e", "x", "i", "t">>, <<"q", "u", "i", "t">>} :
              \A k \in 1..4 : SameLetter(line[before + k], word[k])

\* C27: a line that is exit or quit once trimmed and lower-cased is the last
\* line read, ends the loop and is not forwarded; the lines forwarded are
\* exactly the other lines read, character for character, once each and in
\* the order read; once the loop has ended nothing is read or forwarded.
C27_Forwarding ==
    /\ [](/\ \A i \in DOMAIN inputs :
                SaysExit(inputs[i]) => i = Len(inputs) /\ stage = "ended"
          /\ Len(sent) = Cardinality({i \in DOMAIN inputs : ~SaysExit(inputs[i])})
          /\ \A i \in DOMAIN sent : sent[i] = inputs[i])
    /\ [][stage # "online" => inputs' = inputs /\ sent' = sent]_vars

\* two lines forwarded with their blanks and capitals, then " EXIT " ended
\* the loop
C27_Witness ==
    /\ stage = "ended"
    /\ Len(inputs) = 3
    /\ inputs[1] = <<" ", "H", "i", " ">>
    /\ inputs[3] = <<" ", "E", "X", "I", "T", " ">>
    /\ sent = <<inputs[1], inputs[2]>>

\* the step is a turn whose remote call raised an error
ErrorTurn == printed' = Append(printed, "error response")

\* C28: a turn whose remote call raises prints one inline error message and
\* leaves the loop running with the line read and forwarded; the loop ends
\* only on exit/quit (the farewell) or on an interrupt (the shutdown
\* message).
C28_OnlyExitOrInterrupt ==
    [][/\ ErrorTurn =>
            /\ stage = "online" /\ stage' = "online"
            /\ Len(inputs') = Len(inputs) + 1
            /\ sent' = Append(sent, inputs'[Len(inputs')])
       /\ (stage = "online" /\ stage' # "online") =>
            \/ /\ Len(inputs') = Len(inputs) + 1
               /\ SaysExit(inputs'[Len(inputs')])
               /\ printed' = Append(printed, "goodbye")
            \/ printed' = Append(printed, "shutdown")]_vars

\* the key is in neither os.environ nor the .env file
KeyAbsent == GEMINI_API_KEY = "unset" /\ dotenv = "unset"

\* C29: when the API key is absent, the process that has left the
\* constructor has exited, with no client, no chat session, no line read
\* and no message forwarded.
C29_FailFast ==
    (KeyAbsent /\ stage # "new") =>
        /\ stage = "exited"
        /\ ~client /\ ~chat
        /\ inputs = << >> /\ sent = << >>
        /\ printed = <<"key not found">>

C29_Witness == KeyAbsent /\ stage = "exited"

\* =====================================================================
\* The ledger: recording order
\* =====================================================================

\* C30: recording order does not matter: when the calls of one plan have all
\* been recorded on a second ledger, in whatever order, get_balance(T) of
\* that ledger is, for every T, what it was on the first ledger with the
\* same calls; a debit recorded before the grant that funds it included
C30_OrderIndependent ==
    (Pending = {} /\ earlier # << >>) => Balances = earlier

\* =====================================================================
\* The payments consumer: the processed-set
\* =====================================================================

\* the keys of the pairs a per-type handler has been called for
KeysHandled ==
    {generate_idempotency_key(pair[1], pair[2]) : pair \in DOMAIN handled}

\* the i-th record of the batch failed in an earlier batch of this process
FailedBefore(i) ==
    Rec(event[i].kin, event[i].body, event[i].arn, event[i].p) \in failed_before

\* the processed-set only grows, and holds exactly the keys of the records
\* whose per-type handler was called
C31_GrowsAndExact ==
    /\ [](processed_payments = KeysHandled)
    /\ [][processed_payments \subseteq processed_payments']_vars

\* a record that failed in an earlier batch fails again when it is delivered
\* again: it is not counted as successful
C31_RedeliveredFailsAgain ==
    Responded => \A i \in DOMAIN event : FailedBefore(i) => FailedAt(i)

\* C31: the processed-set of the Payments Consumer only grows and holds
\* exactly the keys of the records whose per-type handler was called (a
\* failing record adds none), so a record that failed and is delivered again
\* is processed again, not skipped as already processed
C31_ProcessedSet == C31_GrowsAndExact /\ []C31_RedeliveredFailsAgain

\* =====================================================================
\* The consumers: count conservation
\* =====================================================================

\* the records counted successful (successful_records) and the records
\* recorded as failed (failed_records) when the invocation ended
NumSuccessful == Cardinality({i \in DOMAIN outcomes : outcomes[i] = "ok"})

NumFailed == Len(failed_records)

CountingConsumers == {"user_activity", "orders", "payments", "analytics_aggregator"}

\* the same for the invocations that return a result
C32_CountsOfReturned ==
    (consumer \in CountingConsumers /\ Responded /\ response.shape # "raised")
    => /\ NumSuccessful + NumFailed = Len(event)
       /\ response.shape = "summary"
          => /\ response.successfulRecords = NumSuccessful
             /\ response.failedRecords = NumFailed
             /\ response.batchSize = Len(event)

\* C32: in the consumers of user activity, orders, payments and analytics,
\* when an invocation has ended every record of the batch has been counted
\* once: successful records plus failed records is the batch size
C32_CountConservation ==
    (consumer \in CountingConsumers /\ Responded)
    => NumSuccessful + NumFailed = Len(event)

\* the event-source mappings of the standalone resource set at tf[b]
Mappings(tf, b) == tf[b].event_sources

\* C33: in every generated text, the standalone resource set of every
\* additional consumer holds exactly one event-source mapping per entry of
\* the stream list the consumer declares (one for a single stream, n for a
\* list of n): the i-th mapping reads the i-th declared stream, routes
\* failures to the dead-letter queue of that same stream's module and
\* depends on the consumer's own IAM policy attachment.
C33_MappingPerStream ==
    \A r \in DOMAIN runs : Produced(r) =>
        \A j \in DOMAIN ConfConsumers :
            LET c  == ConfConsumers[j]
                tf == runs[r].result.tf
            IN  IsAdditional(r, c) =>
                    /\ Cardinality(StandaloneSets(tf, c.name)) = 1
                    /\ \A b \in StandaloneSets(tf, c.name) :
                           /\ Len(Mappings(tf, b)) = Len(Declared(c))
                           /\ tf[b].policy_attachment = c.name \o "_kinesis"
                           /\ \A i \in DOMAIN Mappings(tf, b) :
                                  LET m == Mappings(tf, b)[i]
                                      s == Declared(c)[i]
                                  IN  /\ m.event_source_arn
                                            = [module |-> s \o "_events",
                                               attr |-> "stream_arn"]
                                      /\ m.destination_arn
                                            = [module |-> s \o "_events",
                                               attr |-> "dlq_arn"]
                                      /\ m.depends_on = tf[b].policy_attachment
                           /\ \A i, k \in DOMAIN Mappings(tf, b) :
                                  i # k => Mappings(tf, b)[i].name
                                              # Mappings(tf, b)[k].name

\* a generated text with an additional consumer of two streams, whose two
\* mappings route to two different dead-letter queues
C33_Witness ==
    \E r \in DOMAIN runs : Produced(r) /\
        \E j \in DOMAIN ConfConsumers :
            LET c  == ConfConsumers[j]
                tf == runs[r].result.tf
            IN  /\ IsAdditional(r, c)
                /\ Len(Declared(c)) = 2
                /\ \E b \in StandaloneSets(tf, c.name) :
                       /\ Len(Mappings(tf, b)) = 2
                       /\ Mappings(tf, b)[1].destination_arn
                              # Mappings(tf, b)[2].destination_arn

\* =====================================================================
\* The ledger: the timeline
\* =====================================================================

\* how many entries of the timeline equal t
TimelineCount(t) == Cardinality({i \in DOMAIN timestamps : timestamps[i] = t})

\* how many recorded events carry the timestamp t: grant creations, grant
\* expirations and subtract calls
EventCount(t) ==
    Cardinality({g \in DOMAIN grants : grants[g].ts = t})
        + Cardinality({g \in DOMAIN grants : grants[g].ets = t})
        + Cardinality({i \in DOMAIN subtractions : subtractions[i].ts = t})

\* C34: after any sequence of create_grant and subtract calls the timeline
\* is in ascending order and holds, as a multiset, one entry per grant
\* creation timestamp, one per grant expiration timestamp and one per
\* subtract call: 2 x grants + debits entries in total.
C34_TimelineSortedMultiset ==
    /\ \A i \in 1..(Len(timestamps) - 1) : timestamps[i] <= timestamps[i + 1]
    /\ \A t \in Timestamps : TimelineCount(t) = EventCount(t)
    /\ \A i \in DOMAIN timestamps : timestamps[i] \in Timestamps
    /\ Len(timestamps) = 2 * Cardinality(DOMAIN grants) + Len(subtractions)

\* a ledger of two grants and a debit recorded out of timestamp order, the
\* debit sharing its timestamp with a creation and an expiration
C34_Witness ==
    /\ Cardinality(DOMAIN grants) = 2
    /\ Len(subtractions) = 1
    /\ Len(timestamps) = 5
    /\ \E g, h \in DOMAIN grants :
           /\ g # h
           /\ grants[g].ets = grants[h].ts
           /\ subtractions[1].ts = grants[h].ts
           /\ grants[h].ets < grants[h].ts
    /\ call.op = "subtract"
    /\ call.arg < timestamps[Len(timestamps)]

\* =====================================================================
\* The infra generators: dry runs
\* =====================================================================

\* a step of main() with --dry-run leaves __generated__ and every main.tf
\* as they were and, when generate returned a text, prints that text; a
\* step without --dry-run that writes leaves the text in main.tf of its
\* environment and prints nothing on standard output
C35_DryStep ==
    Ran =>
        /\ ThisRun.dry_run =>
               /\ FilesUntouched
               /\ ~ThisRun.wrote
               /\ ThisRun.result.raised = "" => ThisRun.stdout = ThisRun.result.tf
        /\ ThisRun.wrote =>
               /\ ~ThisRun.dry_run
               /\ generated' = "dir"
               /\ main_tf'[ThisRun.env] = ThisRun.written
               /\ ThisRun.stdout = << >>

\* what a writing run wrote is what a dry run with the same arguments printed
C35_WritesWhatDryPrints ==
    \A r1, r2 \in DOMAIN runs :
        (/\ runs[r1].dry_run /\ runs[r1].exit_code = 0
         /\ ~runs[r2].dry_run /\ runs[r2].wrote
         /\ runs[r1].env = runs[r2].env
         /\ runs[r1].project_dir = runs[r2].project_dir)
            => /\ runs[r2].written = runs[r1].stdout
               /\ runs[r1].stdout # << >>

Twin(r) ==
    generate(CHOOSE t \in Tools : t # tool, config_file.doc, runs[r].env,
             [abs |-> TRUE, parts |-> PlatformPath], runs[r].project_dir)

\* run r called generate
Generated(r) == runs[r].result.raised # "not called"

\* the fields of a block that hold a path: the source of a module, the
\* lambda source path of a stream module, the source directory of a
\* standalone consumer
PathKeys == {"source", "lambda_source_path", "source_dir"}

\* a block with each path cut down to its last component (the module's
\* name, or the consumer's source setting), so that only the relative
\* path in front of it is left out
Settings(b) ==
    [k \in DOMAIN b |-> IF k \in PathKeys THEN b[k][Len(b[k])] ELSE b[k]]

\* the same, without the Project tag of the header
SettingsButProject(b) ==
    [k \in DOMAIN b \ {"project"} |-> Settings(b)[k]]

\* both variants classify the consumers of the config in the same way, and
\* raise or return alike
SameClassification(r) ==
    /\ Twin(r).raised = runs[r].result.raised
    /\ Twin(r).primary = runs[r].result.primary
    /\ Twin(r).additional = runs[r].result.additional

ProjectTag(t, r) ==
    IF t = "kinesis-infra"
    THEN Get(config_file.doc, "project_name", PathName(runs[r].project_dir))
    ELSE "kinesis-event-ingestion"

C37_TieIndependent ==
    \A T \in Timestamps : \A hs \in Layouts :
        GetBalanceOrd(hs, T) = GetBalance(T)

\* =====================================================================
\* The ledger: the range of a balance
\* =====================================================================

\* the grants created at or before T
CreatedBy(T) == {g \in DOMAIN grants : grants[g].ts <= T}

\* the sum of their original amounts
GrantedBy(T) == SumOver(CreatedBy(T), [g \in DOMAIN grants |-> grants[g].amt])

\* C38: with all grant and debit amounts positive, get_balance(T) is either
\* None or an integer b with 0 <= b <= the sum of the original amounts of
\* the grants created at or before T; it is never negative.
C38_BalanceRange ==
    Queried =>
        \/ call.ret = None
        \/ /\ call.ret.tag = "int"
           /\ 0 <= call.ret.val
           /\ call.ret.val <= GrantedBy(call.arg)

\* a query that returned a positive balance below the amounts granted by
\* then, a debit having taken a part of a grant, with another grant
\* created only afterwards
C38_Witness ==
    /\ Queried
    /\ call.ret.tag = "int"
    /\ 0 < call.ret.val
    /\ call.ret.val < GrantedBy(call.arg)
    /\ \E i \in DOMAIN subtractions : subtractions[i].ts <= call.arg
    /\ CreatedBy(call.arg) # DOMAIN grants

\* =====================================================================
\* The infra generators: references between blocks
\* =====================================================================

\* the module references of a standalone resource set: those of its IAM
\* policy, of its event-source mappings and of their dead-letter routing
ModuleRefs(b) ==
    Range(b.policy.stream_arns) \cup Range(b.policy.kms_arns)
        \cup Range(b.policy.dlq_arns)
        \cup {b.event_sources[i].event_source_arn : i \in DOMAIN b.event_sources}
        \cup {b.event_sources[i].destination_arn : i \in DOMAIN b.event_sources}

\* the names of the module blocks of a text
ModuleNames(tf) == {tf[i].name : i \in {j \in DOMAIN tf : tf[j].block = "module"}}

\* the standalone resource sets of a text refer to modules of that text only
Resolved(tf) ==
    \A i \in DOMAIN tf : tf[i].block = "consumer" =>
        \A ref \in ModuleRefs(tf[i]) : ref.module \in ModuleNames(tf)

\* every stream a consumer of the config declares is a configured stream
AllDeclaredConfigured ==
    \A j \in DOMAIN ConfConsumers : \A i \in DOMAIN Declared(ConfConsumers[j]) :
        Has(ConfStreams, Declared(ConfConsumers[j])[i])

\* C39: referential integrity of the generated output: every stream module
\* that an additional consumer's resources refer to (in its IAM policy, its
\* event-source mappings and its dead-letter routing) is a module block
\* emitted in the same output, for every config the generator accepts.
C39_ReferentialIntegrity ==
    \A r \in DOMAIN runs : Produced(r) => Resolved(runs[r].result.tf)

\* the same for the configs whose consumers declare configured streams only
C39_IntegrityWhenDeclared ==
    \A r \in DOMAIN runs :
        (Produced(r) /\ AllDeclaredConfigured) => Resolved(runs[r].result.tf)

====
